---------------------------- MODULE Spec2Model ----------------------------
(***************************************************************************)
(* A model of scripts/test_mcp_client.py: the MCP conformance suite        *)
(* (RustyMailMCPTester), the chatbot consistency suite                     *)
(* (EmailAssistantChatbotTester) and main(); and of add-license-headers.py. *)
(*                                                                         *)
(* Text is a sequence of one-character strings wherever the code indexes,  *)
(* splits or scans it; names and log details are TLA+ strings, built with  *)
(* \o the way the code's f-strings build them.                             *)
(***************************************************************************)
EXTENDS Integers, Sequences, FiniteSets, TLC

(***************************************************************************)
(* Bounds of the model.                                                    *)
(***************************************************************************)
\* the longest chatbot response text, counted in symbols: a character of
\* TextSymbols, or the provider tag's prefix
MaxChars == 4
\* the largest count the direct tool reports
MaxCount == 2
\* the most expected tools an advertised catalog leaves out, adds or doubles
MaxChanged == 2
\* the most tools in a catalog advertised to schema validation
MaxTools == 3
\* the most calls of cleanup on one tester
MaxCleanups == 2
\* the most lines of a source file handed to add-license-headers.py
MaxLines == 6
\* the most runs of add-license-headers.py over one file
MaxRuns == 2
\* the most calls of log_test made one by one on a tester
MaxLogged == 3

(***************************************************************************)
(* Characters and the str / re / int operations the checks use.            *)
(***************************************************************************)
Digits == <<"0", "1", "2", "3", "4", "5", "6", "7", "8", "9">>

IsDigit(c) == \E d \in 1..10 : Digits[d] = c

DigitVal(c) == (CHOOSE d \in 1..10 : Digits[d] = c) - 1

LetterChars ==
    { "a", "b", "c", "d", "e", "f", "g", "h", "i", "j", "k", "l", "m",
      "n", "o", "p", "q", "r", "s", "t", "u", "v", "w", "x", "y", "z",
      "A", "B", "C", "D", "E", "F", "G", "H", "I", "J", "K", "L", "M",
      "N", "O", "P", "Q", "R", "S", "T", "U", "V", "W", "X", "Y", "Z", "_" }

\* re's \w
IsWord(c) == IsDigit(c) \/ c \in LetterChars

\* str.split(sep) for a one-character sep: k separators give k + 1 parts
RECURSIVE SplitOn(_, _)
SplitOn(s, sep) ==
    IF \A i \in 1..Len(s) : s[i] /= sep
    THEN <<s>>
    ELSE LET i == CHOOSE k \in 1..Len(s) :
                      s[k] = sep /\ \A j \in 1..(k - 1) : s[j] /= sep
         IN <<SubSeq(s, 1, i - 1)>> \o SplitOn(SubSeq(s, i + 1, Len(s)), sep)

\* chatbot_text.split('\n')
Split(s) == SplitOn(s, "\n")

\* '\n'.join(lines)
RECURSIVE Join(_)
Join(lines) ==
    IF lines = <<>> THEN <<>>
    ELSE IF Len(lines) = 1 THEN lines[1]
    ELSE lines[1] \o <<"\n">> \o Join(Tail(lines))

ProviderPrefix == <<"[", "P", "r", "o", "v", "i", "d", "e", "r", ":">>

\* str.startswith
StartsWith(line, prefix) ==
    /\ Len(line) >= Len(prefix)
    /\ SubSeq(line, 1, Len(prefix)) = prefix

\* re's \b at the gap after the first p characters of s
WordBoundary(s, p) ==
    LET before == p >= 1 /\ IsWord(s[p])
        after == p < Len(s) /\ IsWord(s[p + 1])
    IN before /= after

\* r'\b(\d+)\b' tried at gap p: the end of the match, 0 when it fails.  \d+ is
\* greedy and gives characters back until the closing \b holds.
MatchAt(s, p) ==
    IF ~WordBoundary(s, p) THEN 0
    ELSE LET ends == { e \in (p + 1)..Len(s) :
                         /\ \A i \in (p + 1)..e : IsDigit(s[i])
                         /\ WordBoundary(s, e) }
         IN IF ends = {} THEN 0
            ELSE CHOOSE e \in ends : \A f \in ends : f <= e

\* re.findall(r'\b(\d+)\b', s), scanning from gap p
RECURSIVE FindAllFrom(_, _)
FindAllFrom(s, p) ==
    IF p >= Len(s) THEN <<>>
    ELSE LET e == MatchAt(s, p)
         IN IF e = 0 THEN FindAllFrom(s, p + 1)
            ELSE <<SubSeq(s, p + 1, e)>> \o FindAllFrom(s, e)

FindAll(s) == FindAllFrom(s, 0)

\* int(token) of a run of decimal digits
RECURSIVE ParseInt(_)
ParseInt(ds) ==
    IF ds = <<>> THEN 0
    ELSE 10 * ParseInt(SubSeq(ds, 1, Len(ds) - 1)) + DigitVal(ds[Len(ds)])

\* str(n) of an int, as an f-string renders it
RECURSIVE IntToStr(_)
IntToStr(n) ==
    IF n < 0 THEN "-" \o IntToStr(-n)
    ELSE IF n < 10 THEN Digits[n + 1]
    ELSE IntToStr(n \div 10) \o Digits[(n % 10) + 1]

\* the characters of a text as one string
RECURSIVE CharsToStr(_)
CharsToStr(cs) == IF cs = <<>> THEN "" ELSE Head(cs) \o CharsToStr(Tail(cs))

\* chatbot_text[:100]
DetailLimit == 100

Truncate(s) == SubSeq(s, 1, IF Len(s) < DetailLimit THEN Len(s) ELSE DetailLimit)

ResponseContentUnfiltered(chatbot_text) == Join(Split(chatbot_text))

\* the response content the count check scans: the lines that do not start
\* with '[Provider:'
ResponseContent(chatbot_text) ==
    Join(SelectSeq(Split(chatbot_text), LAMBDA line : ~StartsWith(line, ProviderPrefix)))

UpperChars == <<"A", "B", "C", "D", "E", "F", "G", "H", "I", "J", "K", "L", "M",
                "N", "O", "P", "Q", "R", "S", "T", "U", "V", "W", "X", "Y", "Z">>

LowerChars == <<"a", "b", "c", "d", "e", "f", "g", "h", "i", "j", "k", "l", "m",
                "n", "o", "p", "q", "r", "s", "t", "u", "v", "w", "x", "y", "z">>

\* str.lower()
Lower(s) ==
    [i \in 1..Len(s) |->
        IF \E k \in 1..26 : UpperChars[k] = s[i]
        THEN LowerChars[CHOOSE k \in 1..26 : UpperChars[k] = s[i]]
        ELSE s[i]]

\* sub in s
Contains(s, sub) ==
    \E i \in 0..(Len(s) - Len(sub)) : SubSeq(s, i + 1, i + Len(sub)) = sub

\* re.search(r'\d+', s) finds something
HasDigit(s) == \E i \in 1..Len(s) : IsDigit(s[i])

(***************************************************************************)
(* The suites.                                                             *)
(***************************************************************************)
EXPECTED_TOOLS ==
    << "list_folders", "list_folders_hierarchical", "search_emails",
       "fetch_emails_with_mime", "atomic_move_message", "atomic_batch_move",
       "mark_as_deleted", "delete_messages", "undelete_messages", "expunge",
       "list_cached_emails", "get_email_by_uid", "get_email_by_index",
       "count_emails_in_folder", "get_folder_stats", "search_cached_emails",
       "list_accounts", "set_current_account" >>

\* the coroutines run_all_tests hands to asyncio.gather, in list order
MCPTests ==
    << "test_initialize_handshake", "test_list_tools", "test_tool_schemas",
       "test_simple_tool_call" >>

ChatbotTests ==
    << "test_chatbot_endpoint_basic", "test_chatbot_with_account_id",
       "test_chatbot_email_count_accuracy", "test_folder_parameter_handling",
       "test_account_isolation" >>

Range(f) == { f[i] : i \in DOMAIN f }

AllTests == Range(MCPTests) \cup Range(ChatbotTests)

VARIABLES
    args,           \* main's parsed arguments: test_chatbot, transport
    env,            \* what opening and closing the stdio session meets
    server,         \* what the server answers to each request
    escapes,        \* the checks whose error escapes their own handler
    run_pc,         \* where main / run_all_tests stands
    pending_exc,    \* run_all_tests is unwinding with an exception
    success,        \* run_all_tests' return value: "None", "True", "False"
    exit_status,    \* the process exit status, -1 while running
    session,        \* self.session: "None" or "ClientSession"
    exit_stack,     \* self.exit_stack: the contexts entered, oldest first
    binary_path,    \* initialize_stdio's binary_path: "" before the assignment
    released,       \* the contexts closed so far, in the order closed
    cleanup_calls,  \* how many times cleanup was invoked
    cleanup_raised, \* what the last call of cleanup raised to its caller, "" if nothing
    test_results,   \* self.test_results: passed, failed, errors
    pc,             \* each check coroutine's position
    ret,            \* each check's result in gather: "True", "False", "raised"
    recorded,       \* the log_test calls each check made: passed, failed
    numbers,        \* test_chatbot_email_count_accuracy's numbers
    chatbot_count,  \* its chatbot_count: <<>> before the assignment, then <<n>>
    folder_idx,     \* test_folder_parameter_handling's loop position
    all_passed,     \* its all_passed
    missing_tools,  \* test_list_tools' missing_tools: <<>> before the assignment
    extra_tools,    \* its extra_tools: <<>> before the assignment
    expected_tools, \* the module's EXPECTED_TOOLS list as the run has left it
    content,        \* add-license-headers.py: the text of the file it is run over
    file_access,    \* how that file can be opened: "rw", "read_only", "unreadable"
    add_result,     \* what add_license_to_file last returned: "None" before any call
    added,          \* its main's added, as the last run left it
    skipped,        \* its main's skipped, as the last run left it
    license_runs    \* how many times the script has run

inputVars == <<args, env, server, escapes>>
runVars == <<run_pc, pending_exc, success, exit_status>>
sessionVars == <<session, exit_stack, binary_path, released, cleanup_calls, cleanup_raised>>
checkVars == <<test_results, pc, ret, recorded>>
countVars == <<numbers, chatbot_count>>
folderVars == <<folder_idx, all_passed>>
diffVars == <<missing_tools, extra_tools, expected_tools>>
licenseVars == <<content, file_access, add_result, added, skipped, license_runs>>
localVars == <<countVars, folderVars, diffVars, licenseVars>>
vars == <<inputVars, runVars, sessionVars, checkVars, localVars>>

\* __init__: test_results
NoResults == [passed |-> 0, failed |-> 0, errors |-> <<>>]

LogTestPrepending(tr, test_name, passed, error) ==
    IF passed
    THEN [tr EXCEPT !.passed = @ + 1]
    ELSE [tr EXCEPT !.failed = @ + 1,
                    !.errors = <<test_name \o ": " \o error>> \o @]

LogTestOverwriting(tr, test_name, passed, error) ==
    IF passed
    THEN [tr EXCEPT !.passed = 1]
    ELSE [tr EXCEPT !.failed = 1,
                    !.errors = <<test_name \o ": " \o error>>]

\* log_test (the same in both testers)
LogTest(tr, test_name, passed, error) ==
    IF passed
    THEN [tr EXCEPT !.passed = @ + 1]
    ELSE [tr EXCEPT !.failed = @ + 1,
                    !.errors = Append(@, test_name \o ": " \o error)]

\* every step of a check: its log_test calls so far (tr), where it stands next,
\* and what it returned if it did
Step(c, tr, next, r) ==
    /\ test_results' = tr
    /\ recorded' = [recorded EXCEPT ![c] =
                      [passed |-> @.passed + (tr.passed - test_results.passed),
                       failed |-> @.failed + (tr.failed - test_results.failed)]]
    /\ pc' = [pc EXCEPT ![c] = next]
    /\ ret' = [ret EXCEPT ![c] = r]

Fail(tr, test_name, error) == [tr |-> LogTest(tr, test_name, FALSE, error), ret |-> "False"]

Pass(tr, test_name) == [tr |-> LogTest(tr, test_name, TRUE, ""), ret |-> "True"]

\* asyncio starts the gathered tasks in the order gather was given them
CanStart(c, tests) ==
    /\ \E i \in DOMAIN tests :
          /\ tests[i] = c
          /\ \A j \in 1..(i - 1) : pc[tests[j]] /= "ready"
    /\ pc[c] = "ready"

Start(c, tests, next) ==
    /\ CanStart(c, tests)
    /\ pc' = [pc EXCEPT ![c] = next]
    /\ UNCHANGED <<inputVars, runVars, sessionVars, localVars, test_results, ret, recorded>>

(***************************************************************************)
(* EmailAssistantChatbotTester                                             *)
(***************************************************************************)
AccountId == "chris@texasfortress.ai"

\* the error texts Python gives when "text" or "data" is null
NoneHasNo(attr) == "'NoneType' object has no attribute '" \o attr \o "'"

\* test_chatbot_endpoint_basic, from the response on
EndpointBasic(tr, r) ==
    LET name == "Chatbot endpoint basic"
    IN IF ~r.net THEN Fail(tr, name, r.err)
       ELSE IF r.status /= 200 THEN Fail(tr, name, "HTTP " \o IntToStr(r.status))
       ELSE IF ~r.json THEN Fail(tr, name, r.err)
       ELSE IF r.has_text = "missing" THEN Fail(tr, name, "Missing 'text' field")
       ELSE Pass(tr, name)

ErrorWord == <<"e", "r", "r", "o", "r">>
FailedWord == <<"f", "a", "i", "l", "e", "d">>

\* test_chatbot_with_account_id, from the response on
WithAccountId(tr, r) ==
    LET name == "Chatbot with account_id"
        response_text == IF r.has_text = "missing" THEN <<>> ELSE r.text
    IN IF ~r.net THEN Fail(tr, name, r.err)
       ELSE IF r.status /= 200 THEN Fail(tr, name, "HTTP " \o IntToStr(r.status))
       ELSE IF ~r.json THEN Fail(tr, name, r.err)
       ELSE IF r.has_text = "null" THEN Fail(tr, name, NoneHasNo("lower"))
       ELSE IF \/ Contains(Lower(response_text), ErrorWord)
               \/ Contains(Lower(response_text), FailedWord)
            THEN Fail(tr, name, "Error in response: " \o CharsToStr(Truncate(response_text)))
       ELSE Pass(tr, name)

\* chatbot_count = int(numbers[0])
ExtractedLast(nums) == ParseInt(nums[Len(nums)])

ExtractedCount(nums) == ParseInt(nums[1])

CountChatbotSideDefaultZero(tr, r) ==
    LET name == "Email count accuracy"
        chatbot_text == IF r.has_text = "missing" THEN <<>> ELSE r.text
        found == FindAll(ResponseContent(chatbot_text))
        stop(o) == [tr |-> o.tr, ret |-> o.ret, numbers |-> <<>>, chatbot_count |-> <<>>]
    IN IF ~r.net THEN stop(Fail(tr, name, r.err))
       ELSE IF r.status /= 200
            THEN stop(Fail(tr, name, "Chatbot HTTP " \o IntToStr(r.status)))
       ELSE IF ~r.json THEN stop(Fail(tr, name, r.err))
       ELSE IF r.has_text = "null" THEN stop(Fail(tr, name, NoneHasNo("split")))
       ELSE IF found = <<>>
            THEN [tr |-> tr, ret |-> "pending", numbers |-> found, chatbot_count |-> <<0>>]
       ELSE [tr |-> tr, ret |-> "pending", numbers |-> found,
             chatbot_count |-> <<ExtractedCount(found)>>]

\* test_chatbot_email_count_accuracy, from the chatbot's response to the
\* direct request: ret stays "pending" when the check goes on
CountChatbotSide(tr, r) ==
    LET name == "Email count accuracy"
        chatbot_text == IF r.has_text = "missing" THEN <<>> ELSE r.text
        found == FindAll(ResponseContent(chatbot_text))
        stop(o) == [tr |-> o.tr, ret |-> o.ret, numbers |-> <<>>, chatbot_count |-> <<>>]
    IN IF ~r.net THEN stop(Fail(tr, name, r.err))
       ELSE IF r.status /= 200
            THEN stop(Fail(tr, name, "Chatbot HTTP " \o IntToStr(r.status)))
       ELSE IF ~r.json THEN stop(Fail(tr, name, r.err))
       ELSE IF r.has_text = "null" THEN stop(Fail(tr, name, NoneHasNo("split")))
       ELSE IF found = <<>>
            THEN [tr |-> LogTest(tr, name, FALSE,
                            "No number in response: " \o CharsToStr(Truncate(chatbot_text))),
                  ret |-> "False", numbers |-> found, chatbot_count |-> <<>>]
       ELSE [tr |-> tr, ret |-> "pending", numbers |-> found,
             chatbot_count |-> <<ExtractedCount(found)>>]

\* chatbot_count != mcp_count, an int against a JSON value
CountsDifferByMoreThanOne(n, v) ==
    IF v.kind = "int" THEN n - v.int > 1 \/ v.int - n > 1 ELSE TRUE

CountsDiffer(n, v) == IF v.kind = "int" THEN n /= v.int ELSE TRUE

\* f"{mcp_count}"
FormatJson(v) == IF v.kind = "int" THEN IntToStr(v.int) ELSE v.str

MismatchDetailSwapped(n, v) ==
    "Mismatch: chatbot=" \o FormatJson(v) \o ", MCP=" \o IntToStr(n)

\* f"Mismatch: chatbot={chatbot_count}, MCP={mcp_count}"
MismatchDetail(n, v) ==
    "Mismatch: chatbot=" \o IntToStr(n) \o ", MCP=" \o FormatJson(v)

CountMcpSideFalsyCount(tr, r, n) ==
    LET name == "Email count accuracy"
    IN IF ~r.net THEN Fail(tr, name, r.err)
       ELSE IF r.status /= 200 THEN Fail(tr, name, "MCP HTTP " \o IntToStr(r.status))
       ELSE IF ~r.json THEN Fail(tr, name, r.err)
       ELSE IF r.data = "null" THEN Fail(tr, name, NoneHasNo("get"))
       ELSE IF r.data = "list" THEN Fail(tr, name, "'list' object has no attribute 'get'")
       ELSE IF r.data = "missing" \/ r.count.kind \in {"missing", "null"}
               \/ (r.count.kind = "int" /\ r.count.int = 0)
            THEN Fail(tr, name, "MCP returned no count")
       ELSE IF CountsDiffer(n, r.count) THEN Fail(tr, name, MismatchDetail(n, r.count))
       ELSE Pass(tr, name)

\* test_chatbot_email_count_accuracy, from the direct tool's response on
CountMcpSide(tr, r, n) ==
    LET name == "Email count accuracy"
    IN IF ~r.net THEN Fail(tr, name, r.err)
       ELSE IF r.status /= 200 THEN Fail(tr, name, "MCP HTTP " \o IntToStr(r.status))
       ELSE IF ~r.json THEN Fail(tr, name, r.err)
       ELSE IF r.data = "null" THEN Fail(tr, name, NoneHasNo("get"))
       ELSE IF r.data = "list" THEN Fail(tr, name, "'list' object has no attribute 'get'")
       ELSE IF r.data = "missing" \/ r.count.kind \in {"missing", "null"}
            THEN Fail(tr, name, "MCP returned no count")
       ELSE IF CountsDiffer(n, r.count) THEN Fail(tr, name, MismatchDetail(n, r.count))
       ELSE Pass(tr, name)

CountQuery == "How many emails do I have in INBOX?"
AccountQuery == "How many emails do I have?"

TestChatbotEndpointBasicStart ==
    /\ Start("test_chatbot_endpoint_basic", ChatbotTests, "await_chatbot")

TestChatbotEndpointBasicResponse ==
    LET c == "test_chatbot_endpoint_basic" IN
    /\ pc[c] = "await_chatbot"
    /\ LET o == EndpointBasic(test_results, server.chat["Hello"])
       IN Step(c, o.tr, "done", o.ret)
    /\ UNCHANGED <<inputVars, runVars, sessionVars, localVars>>

TestChatbotWithAccountIdStart ==
    /\ Start("test_chatbot_with_account_id", ChatbotTests, "await_chatbot")

TestChatbotWithAccountIdResponse ==
    LET c == "test_chatbot_with_account_id" IN
    /\ pc[c] = "await_chatbot"
    /\ LET o == WithAccountId(test_results, server.chat[AccountQuery])
       IN Step(c, o.tr, "done", o.ret)
    /\ UNCHANGED <<inputVars, runVars, sessionVars, localVars>>

TestChatbotEmailCountAccuracyStart ==
    /\ Start("test_chatbot_email_count_accuracy", ChatbotTests, "await_chatbot")

TestChatbotEmailCountAccuracyChatbot ==
    LET c == "test_chatbot_email_count_accuracy" IN
    /\ pc[c] = "await_chatbot"
    /\ LET o == CountChatbotSide(test_results, server.chat[CountQuery])
       IN /\ Step(c, o.tr, IF o.ret = "pending" THEN "await_mcp" ELSE "done", o.ret)
          /\ numbers' = o.numbers
          /\ chatbot_count' = o.chatbot_count
    /\ UNCHANGED <<inputVars, runVars, sessionVars, folderVars, diffVars, licenseVars>>

TestChatbotEmailCountAccuracyMcp ==
    LET c == "test_chatbot_email_count_accuracy" IN
    /\ pc[c] = "await_mcp"
    /\ LET o == CountMcpSide(test_results, server.execute["count_emails_in_folder"],
                             chatbot_count[1])
       IN Step(c, o.tr, "done", o.ret)
    /\ UNCHANGED <<inputVars, runVars, sessionVars, localVars>>

folders_to_test ==
    << <<"I", "N", "B", "O", "X">>,
       <<"I", "N", "B", "O", "X", ".", "S", "e", "n", "t">>,
       <<"I", "N", "B", "O", "X", ".", "D", "r", "a", "f", "t", "s">> >>

Last(seq) == seq[Len(seq)]

\* f"How many emails do I have in the {folder.split('.')[-1]} folder?"
FolderQuery(folder) ==
    "How many emails do I have in the " \o CharsToStr(Last(SplitOn(folder, "."))) \o " folder?"

\* re.search given None for a string
ExpectedString == "expected string or bytes-like object"

\* one turn of test_folder_parameter_handling's loop, from the response on:
\* ret is "pending" when the loop goes on, "False" when an exception ends it
FolderIteration(tr, r, folder, passed_so_far) ==
    LET name == "Folder test: " \o CharsToStr(folder)
        response_text == IF r.has_text = "missing" THEN <<>> ELSE r.text
        abort(error) == [tr |-> LogTest(tr, "Folder parameter handling", FALSE, error),
                         ret |-> "False", all_passed |-> passed_so_far]
    IN IF ~r.net THEN abort(r.err)
       ELSE IF r.status /= 200
            THEN [tr |-> LogTest(tr, name, FALSE, "HTTP " \o IntToStr(r.status)),
                  ret |-> "pending", all_passed |-> FALSE]
       ELSE IF ~r.json THEN abort(r.err)
       ELSE IF r.has_text = "null" THEN abort(ExpectedString)
       ELSE IF ~HasDigit(response_text)
            THEN [tr |-> LogTest(tr, name, FALSE, "No count in response"),
                  ret |-> "pending", all_passed |-> FALSE]
       ELSE [tr |-> LogTest(tr, name, TRUE, ""), ret |-> "pending",
             all_passed |-> passed_so_far]

TestFolderParameterHandlingStart ==
    /\ CanStart("test_folder_parameter_handling", ChatbotTests)
    /\ pc' = [pc EXCEPT !["test_folder_parameter_handling"] = "await_chatbot"]
    /\ folder_idx' = 1
    /\ all_passed' = TRUE
    /\ UNCHANGED <<inputVars, runVars, sessionVars, test_results, ret, recorded,
                   countVars, diffVars, licenseVars>>

TestFolderParameterHandlingResponse ==
    LET c == "test_folder_parameter_handling" IN
    /\ pc[c] = "await_chatbot"
    /\ LET folder == folders_to_test[folder_idx]
           o == FolderIteration(test_results, server.chat[FolderQuery(folder)],
                                folder, all_passed)
           over == folder_idx = Len(folders_to_test)
       IN /\ IF o.ret = "False" THEN Step(c, o.tr, "done", "False")
             ELSE IF over
                  THEN Step(c, o.tr, "done", IF o.all_passed THEN "True" ELSE "False")
             ELSE Step(c, o.tr, "await_chatbot", "pending")
          /\ all_passed' = o.all_passed
          /\ folder_idx' = IF o.ret = "False" \/ over THEN folder_idx ELSE folder_idx + 1
    /\ UNCHANGED <<inputVars, runVars, sessionVars, countVars, diffVars, licenseVars>>

\* test_account_isolation, from the account list's response to the chatbot request
IsolationAccounts(tr, r) ==
    LET name == "Account isolation"
    IN IF ~r.net THEN Fail(tr, name, r.err)
       ELSE IF r.status /= 200 THEN Fail(tr, name, "Could not list accounts")
       ELSE IF ~r.json THEN Fail(tr, name, r.err)
       ELSE IF r.data = "null" THEN Fail(tr, name, "object of type 'NoneType' has no len()")
       ELSE IF r.data = "missing" \/ r.accounts < 1
            THEN Pass(tr, "Account isolation (skipped)")
       ELSE [tr |-> tr, ret |-> "pending"]

\* test_account_isolation, from the chatbot's response on
IsolationChatbot(tr, r) ==
    LET name == "Account isolation"
        response_text == IF r.has_text = "missing" THEN <<>> ELSE r.text
    IN IF ~r.net THEN Fail(tr, name, r.err)
       ELSE IF r.status /= 200
            THEN Fail(tr, name, "Account test failed: HTTP " \o IntToStr(r.status))
       ELSE IF ~r.json THEN Fail(tr, name, r.err)
       ELSE IF r.has_text = "null" THEN Fail(tr, name, ExpectedString)
       ELSE IF ~HasDigit(response_text) THEN Fail(tr, name, "No count in response")
       ELSE Pass(tr, name)

TestAccountIsolationStart ==
    /\ Start("test_account_isolation", ChatbotTests, "await_accounts")

TestAccountIsolationAccounts ==
    LET c == "test_account_isolation" IN
    /\ pc[c] = "await_accounts"
    /\ LET o == IsolationAccounts(test_results, server.execute["list_accounts"])
       IN Step(c, o.tr, IF o.ret = "pending" THEN "await_chatbot" ELSE "done", o.ret)
    /\ UNCHANGED <<inputVars, runVars, sessionVars, localVars>>

TestAccountIsolationChatbot ==
    LET c == "test_account_isolation" IN
    /\ pc[c] = "await_chatbot"
    /\ LET o == IsolationChatbot(test_results, server.chat[AccountQuery])
       IN Step(c, o.tr, "done", o.ret)
    /\ UNCHANGED <<inputVars, runVars, sessionVars, localVars>>

(***************************************************************************)
(* RustyMailMCPTester                                                      *)
(***************************************************************************)
NotInitialized == "Session not initialized"

\* test_initialize_handshake
InitializeHandshake(tr, sess) ==
    IF sess = "None" THEN Fail(tr, "Initialize handshake", NotInitialized)
    ELSE Pass(tr, "Initialize handshake")

\* the names test_list_tools collects: those of the items keyed "tools"
RECURSIVE ToolsOf(_)
ToolsOf(items) ==
    IF items = <<>> THEN <<>>
    ELSE (IF Head(items).key = "tools" THEN Head(items).value ELSE <<>>)
         \o ToolsOf(Tail(items))

ToolNames(items) == [i \in 1..Len(ToolsOf(items)) |-> ToolsOf(items)[i].name]

\* ', '.join(names)
RECURSIVE JoinNames(_)
JoinNames(names) ==
    IF names = <<>> THEN ""
    ELSE IF Len(names) = 1 THEN names[1]
    ELSE names[1] \o ", " \o JoinNames(Tail(names))

\* the orders in which iterating a set may give its members
Orderings(S) == { o \in [1..Cardinality(S) -> S] : Range(o) = S }

MissingToolsReversed(tools) == Range(tools) \ Range(EXPECTED_TOOLS)

MissingTools(tools) == Range(EXPECTED_TOOLS) \ Range(tools)

ExtraTools(tools) == Range(tools) \ Range(EXPECTED_TOOLS)

\* the set test_list_tools joins into a detail, if it comes to that
ListedTools(resp) ==
    LET tools == ToolNames(resp.items)
    IN IF resp.raises \/ Len(tools) /= Len(EXPECTED_TOOLS) THEN {}
       ELSE IF MissingTools(tools) /= {} THEN MissingTools(tools)
       ELSE ExtraTools(tools)

ToolDiffSwapped(resp) ==
    LET tools == ToolNames(resp.items)
    IN IF resp.raises \/ Len(tools) /= Len(EXPECTED_TOOLS)
       THEN [missing_tools |-> <<>>, extra_tools |-> <<>>]
       ELSE [missing_tools |-> <<ExtraTools(tools)>>,
             extra_tools |-> <<MissingTools(tools)>>]

\* missing_tools and extra_tools as test_list_tools leaves them: assigned
\* only past the count check
ToolDiff(resp) ==
    LET tools == ToolNames(resp.items)
    IN IF resp.raises \/ Len(tools) /= Len(EXPECTED_TOOLS)
       THEN [missing_tools |-> <<>>, extra_tools |-> <<>>]
       ELSE [missing_tools |-> <<MissingTools(tools)>>,
             extra_tools |-> <<ExtraTools(tools)>>]

ExpectedToolsDifferenceUpdate(expected, resp) ==
    LET tools == ToolNames(resp.items)
    IN IF resp.raises \/ Len(tools) /= Len(expected) THEN expected
       ELSE SelectSeq(expected, LAMBDA n : n \notin Range(tools))

\* the EXPECTED_TOOLS list after test_list_tools: len() reads it, and
\* set(EXPECTED_TOOLS) copies it into a new set before the difference with
\* set(tools) is taken, so the list keeps its items whatever was advertised
ExpectedToolsAfter(expected, resp) == expected

\* test_list_tools, from the response on; listing is the order in which the
\* set of offending names is iterated
ListTools(tr, resp, listing) ==
    LET tools == ToolNames(resp.items)
        counted == LogTest(tr, "Tool count", TRUE, "")
    IN IF resp.raises THEN Fail(tr, "List tools", resp.err)
       ELSE IF Len(tools) /= Len(EXPECTED_TOOLS)
            THEN Fail(tr, "Tool count",
                      "Expected " \o IntToStr(Len(EXPECTED_TOOLS)) \o " tools, got "
                          \o IntToStr(Len(tools)))
       ELSE IF MissingTools(tools) /= {}
            THEN Fail(counted, "Missing tools", "Missing: " \o JoinNames(listing))
       ELSE IF ExtraTools(tools) /= {}
            THEN Fail(counted, "Extra tools", "Unexpected: " \o JoinNames(listing))
       ELSE Pass(counted, "Tool names match")

SchemaOutcomeAnyMapping(tr, tool) ==
    LET name == "Schema: " \o tool.name
    IN IF tool.name = "" THEN Fail(tr, name, "Missing name")
       ELSE IF tool.inputSchema \in {"None", "{}", "[]"}
            THEN Fail(tr, name, "Missing inputSchema")
       ELSE IF tool.inputSchema \notin {"dict_with_properties", "dict_without_properties"}
            THEN Fail(tr, name, "Invalid schema type")
       ELSE Pass(tr, name)

\* what test_tool_schemas records for one advertised tool
SchemaOutcome(tr, tool) ==
    LET name == "Schema: " \o tool.name
    IN IF tool.name = "" THEN Fail(tr, name, "Missing name")
       ELSE IF tool.inputSchema \in {"None", "{}", "[]"}
            THEN Fail(tr, name, "Missing inputSchema")
       ELSE IF tool.inputSchema \notin {"dict_with_properties", "dict_without_properties"}
            THEN Fail(tr, name, "Invalid schema type")
       ELSE IF tool.inputSchema /= "dict_with_properties"
            THEN Fail(tr, name, "Missing properties")
       ELSE Pass(tr, name)

RECURSIVE SchemaLoopUntilInvalid(_, _, _)
SchemaLoopUntilInvalid(tr, tools, all_valid) ==
    IF tools = <<>> \/ ~all_valid
    THEN [tr |-> tr, ret |-> IF all_valid THEN "True" ELSE "False"]
    ELSE LET o == SchemaOutcome(tr, Head(tools))
         IN SchemaLoopUntilInvalid(o.tr, Tail(tools), o.ret = "True")

RECURSIVE SchemaLoopLastOnly(_, _, _)
SchemaLoopLastOnly(tr, tools, all_valid) ==
    IF tools = <<>> THEN [tr |-> tr, ret |-> IF all_valid THEN "True" ELSE "False"]
    ELSE LET o == SchemaOutcome(tr, Head(tools))
         IN SchemaLoopLastOnly(o.tr, Tail(tools), o.ret = "True")

\* test_tool_schemas' loop over the advertised tools
RECURSIVE SchemaLoop(_, _, _)
SchemaLoop(tr, tools, all_valid) ==
    IF tools = <<>> THEN [tr |-> tr, ret |-> IF all_valid THEN "True" ELSE "False"]
    ELSE LET o == SchemaOutcome(tr, Head(tools))
         IN SchemaLoop(o.tr, Tail(tools), all_valid /\ o.ret = "True")

\* test_tool_schemas, from the response on
ToolSchemas(tr, resp) ==
    IF resp.raises THEN Fail(tr, "Tool schemas", resp.err)
    ELSE SchemaLoop(tr, ToolsOf(resp.items), TRUE)

NoAccountsConfigured == <<"N", "o", " ", "a", "c", "c", "o", "u", "n", "t", "s", " ", "c", "o", "n", "f", "i", "g", "u", "r", "e", "d">>
AccountWord == <<"a", "c", "c", "o", "u", "n", "t">>

\* the except branch of test_simple_tool_call takes an error for a pass
Tolerated(error) ==
    Contains(error, NoAccountsConfigured) \/ Contains(Lower(error), AccountWord)

SimpleToolCallUnlessFailed(tr, resp) ==
    IF tr.failed > 0 THEN Fail(tr, "Simple tool call", "skipped")
    ELSE IF ~resp.raises THEN Pass(tr, "list_accounts tool call")
    ELSE IF Tolerated(resp.err) THEN Pass(tr, "list_accounts tool call")
    ELSE Fail(tr, "Simple tool call", CharsToStr(resp.err))

\* test_simple_tool_call, from the response on
SimpleToolCall(tr, resp) ==
    IF ~resp.raises THEN Pass(tr, "list_accounts tool call")
    ELSE IF Tolerated(resp.err) THEN Pass(tr, "list_accounts tool call")
    ELSE Fail(tr, "Simple tool call", CharsToStr(resp.err))

TestInitializeHandshake ==
    LET c == "test_initialize_handshake" IN
    /\ CanStart(c, MCPTests)
    /\ LET o == InitializeHandshake(test_results, session)
       IN Step(c, o.tr, "done", o.ret)
    /\ UNCHANGED <<inputVars, runVars, sessionVars, localVars>>

\* the part of an MCP check before its request: without a session it fails there
SessionGuard(c, test_name, next) ==
    /\ CanStart(c, MCPTests)
    /\ IF session = "None"
       THEN LET o == Fail(test_results, test_name, NotInitialized)
            IN Step(c, o.tr, "done", o.ret)
       ELSE Step(c, test_results, next, "pending")
    /\ UNCHANGED <<inputVars, runVars, sessionVars, localVars>>

TestListToolsStart == SessionGuard("test_list_tools", "List tools", "await_list_tools")

TestListToolsResponse ==
    LET c == "test_list_tools" IN
    /\ pc[c] = "await_list_tools"
    /\ \E listing \in Orderings(ListedTools(server.list_tools)) :
          LET o == ListTools(test_results, server.list_tools, listing)
          IN Step(c, o.tr, "done", o.ret)
    /\ missing_tools' = ToolDiff(server.list_tools).missing_tools
    /\ extra_tools' = ToolDiff(server.list_tools).extra_tools
    /\ expected_tools' = ExpectedToolsAfter(expected_tools, server.list_tools)
    /\ UNCHANGED <<inputVars, runVars, sessionVars, countVars, folderVars, licenseVars>>

TestToolSchemasStart == SessionGuard("test_tool_schemas", "Tool schemas", "await_list_tools")

TestToolSchemasResponse ==
    LET c == "test_tool_schemas" IN
    /\ pc[c] = "await_list_tools"
    /\ LET o == ToolSchemas(test_results, server.list_tools)
       IN Step(c, o.tr, "done", o.ret)
    /\ UNCHANGED <<inputVars, runVars, sessionVars, localVars>>

TestSimpleToolCallStart ==
    SessionGuard("test_simple_tool_call", "Simple tool call", "await_call_tool")

TestSimpleToolCallResponse ==
    LET c == "test_simple_tool_call" IN
    /\ pc[c] = "await_call_tool"
    /\ LET o == SimpleToolCall(test_results, server.call_tool)
       IN Step(c, o.tr, "done", o.ret)
    /\ UNCHANGED <<inputVars, runVars, sessionVars, localVars>>

\* an error that gets past the check's own handler ends the coroutine; gather
\* (return_exceptions=True) keeps it as that check's result
CheckRaises(c) ==
    /\ c \in escapes
    /\ pc[c] \notin {"absent", "ready", "done"}
    /\ pc' = [pc EXCEPT ![c] = "done"]
    /\ ret' = [ret EXCEPT ![c] = "raised"]
    /\ UNCHANGED <<inputVars, runVars, sessionVars, localVars, test_results, recorded>>

(***************************************************************************)
(* Session lifecycle, run_all_tests and main                               *)
(***************************************************************************)
Opened(stack, sess, error) ==
    [exit_stack |-> stack, session |-> sess, raised |-> error, binary_path |-> ""]

BinaryPathReleaseFirst(e) ==
    IF e.release_binary THEN "target/release/rustymail-mcp-stdio"
    ELSE "target/debug/rustymail-mcp-stdio"

\* binary_path as initialize_stdio leaves it: the debug build, and the
\* release build when the debug build does not exist
BinaryPath(e) ==
    IF e.debug_binary THEN "target/debug/rustymail-mcp-stdio"
    ELSE "target/release/rustymail-mcp-stdio"

InitializeStdioSessionFirst(e) ==
    LET probed(o) == [o EXCEPT !.binary_path = BinaryPath(e)]
    IN IF ~e.sdk_installed THEN Opened(<<>>, "None", "ImportError")
       ELSE IF ~e.debug_binary /\ ~e.release_binary
            THEN probed(Opened(<<>>, "None", "FileNotFoundError"))
       ELSE IF ~e.stdio_client_ok THEN probed(Opened(<<>>, "None", "OSError"))
       ELSE IF ~e.client_session_ok
            THEN probed(Opened(<<"stdio_client">>, "None", "RuntimeError"))
       ELSE IF ~e.handshake_ok
            THEN probed(Opened(<<"stdio_client", "ClientSession">>, "ClientSession",
                               "McpError"))
       ELSE probed(Opened(<<"stdio_client", "ClientSession">>, "ClientSession", ""))

\* initialize_stdio: the contexts it entered, the session it assigned and the
\* error it raised ("" when it returned)
InitializeStdio(e) ==
    LET probed(o) == [o EXCEPT !.binary_path = BinaryPath(e)]
    IN IF ~e.sdk_installed THEN Opened(<<>>, "None", "ImportError")
       ELSE IF ~e.debug_binary /\ ~e.release_binary
            THEN probed(Opened(<<>>, "None", "FileNotFoundError"))
       ELSE IF ~e.stdio_client_ok THEN probed(Opened(<<>>, "None", "OSError"))
       ELSE IF ~e.client_session_ok
            THEN probed(Opened(<<"stdio_client">>, "None", "RuntimeError"))
       ELSE IF ~e.handshake_ok
            THEN probed(Opened(<<"stdio_client", "ClientSession">>, "None", "McpError"))
       ELSE probed(Opened(<<"stdio_client", "ClientSession">>, "ClientSession", ""))

InitializeAnyTransport(transport, e) == InitializeStdio(e)

\* initialize
Initialize(transport, e) ==
    IF transport = "stdio" THEN InitializeStdio(e)
    ELSE Opened(<<>>, "None", "ValueError")

Reverse(seq) == [i \in 1..Len(seq) |-> seq[Len(seq) + 1 - i]]

AcloseOldestFirst(stack, e) ==
    [released |-> stack,
     raised |-> IF stack /= <<>> /\ ~e.aclose_ok THEN "RuntimeError" ELSE ""]

\* exit_stack.aclose(): every context entered is closed, newest first; when
\* closing one fails, aclose() raises once all of them are closed
Aclose(stack, e) ==
    [released |-> Reverse(stack),
     raised |-> IF stack /= <<>> /\ ~e.aclose_ok THEN "RuntimeError" ELSE ""]

CleanupUncaught(stack, sess, e) ==
    LET closed == Aclose(stack, e)
    IN [exit_stack |-> <<>>,
        released |-> closed.released,
        session |-> IF closed.raised = "" THEN "None" ELSE sess,
        raised |-> closed.raised]

\* cleanup: when aclose() raises, session = None is skipped and the except
\* branch logs the error; nothing is raised to the caller
Cleanup(stack, sess, e) ==
    LET closed == Aclose(stack, e)
    IN [exit_stack |-> <<>>,
        released |-> closed.released,
        session |-> IF closed.raised = "" THEN "None" ELSE sess,
        raised |-> ""]

\* asyncio.gather(*tests, return_exceptions=True) is done
GatheredFirst(tests) == \E i \in DOMAIN tests : pc[tests[i]] = "done"

Gathered(tests) == \A i \in DOMAIN tests : pc[tests[i]] = "done"

\* the loop over gather's results: one more failure for each exception
CountExceptions(tr, tests) ==
    [tr EXCEPT !.failed = @ + Cardinality({i \in DOMAIN tests : ret[tests[i]] = "raised"})]

VerdictOfErrors(tr) == IF tr.errors = <<>> THEN "True" ELSE "False"

\* success = self.test_results["failed"] == 0
Verdict(tr) == IF tr.failed = 0 THEN "True" ELSE "False"

\* sys.exit(0 if success else 1); an exception out of main ends the process
\* with status 1
ExitStatus(returned, unwinding) ==
    IF unwinding THEN 1 ELSE IF returned = "True" THEN 0 ELSE 1

Tests == IF args.test_chatbot THEN ChatbotTests ELSE MCPTests

Dispatch(tests) ==
    pc' = [c \in AllTests |-> IF c \in Range(tests) THEN "ready" ELSE pc[c]]

\* main: the tester is made; the chatbot suite starts its checks at once
MainStart ==
    /\ run_pc = "main"
    /\ IF args.test_chatbot
       THEN /\ run_pc' = "gather"
            /\ Dispatch(ChatbotTests)
       ELSE /\ run_pc' = "initialize"
            /\ UNCHANGED pc
    /\ UNCHANGED <<inputVars, pending_exc, success, exit_status, sessionVars,
                   localVars, test_results, ret, recorded>>

\* RustyMailMCPTester.run_all_tests up to the await of gather
RunInitialize ==
    /\ run_pc = "initialize"
    /\ LET o == Initialize(args.transport, env)
       IN /\ exit_stack' = o.exit_stack
          /\ session' = o.session
          /\ binary_path' = o.binary_path
          /\ IF o.raised = ""
             THEN /\ run_pc' = "gather"
                  /\ Dispatch(MCPTests)
                  /\ UNCHANGED pending_exc
             ELSE /\ run_pc' = "finally"
                  /\ pending_exc' = TRUE
                  /\ UNCHANGED pc
    /\ UNCHANGED <<inputVars, success, exit_status, released, cleanup_calls,
                   cleanup_raised, localVars, test_results, ret, recorded>>

\* run_all_tests from gather's return to return success
Summarize ==
    /\ run_pc = "gather"
    /\ Gathered(Tests)
    /\ LET tr == CountExceptions(test_results, Tests)
       IN /\ test_results' = tr
          /\ success' = Verdict(tr)
    /\ run_pc' = IF args.test_chatbot THEN "returned" ELSE "finally"
    /\ UNCHANGED <<inputVars, pending_exc, exit_status, sessionVars, localVars,
                   pc, ret, recorded>>

RunFinallySkippedOnError ==
    /\ run_pc = "finally"
    /\ LET o == Cleanup(exit_stack, session, env)
       IN IF pending_exc
          THEN UNCHANGED sessionVars
          ELSE /\ exit_stack' = o.exit_stack
               /\ released' = released \o o.released
               /\ session' = o.session
               /\ cleanup_calls' = cleanup_calls + 1
               /\ cleanup_raised' = o.raised
               /\ UNCHANGED binary_path
    /\ run_pc' = IF pending_exc THEN "raised" ELSE "returned"
    /\ UNCHANGED <<inputVars, pending_exc, success, exit_status, checkVars, localVars>>

\* RustyMailMCPTester.run_all_tests' finally: an error raised there is the
\* one run_all_tests ends with
RunFinally ==
    /\ run_pc = "finally"
    /\ LET o == Cleanup(exit_stack, session, env)
       IN /\ exit_stack' = o.exit_stack
          /\ released' = released \o o.released
          /\ session' = o.session
          /\ cleanup_raised' = o.raised
          /\ pending_exc' = (pending_exc \/ o.raised /= "")
          /\ run_pc' = IF pending_exc \/ o.raised /= "" THEN "raised" ELSE "returned"
    /\ cleanup_calls' = cleanup_calls + 1
    /\ UNCHANGED <<inputVars, success, exit_status, binary_path, checkVars, localVars>>

\* main after run_all_tests
MainExit ==
    /\ run_pc \in {"returned", "raised"}
    /\ exit_status' = ExitStatus(success, pending_exc)
    /\ run_pc' = "exited"
    /\ UNCHANGED <<inputVars, pending_exc, success, sessionVars, checkVars, localVars>>

(***************************************************************************)
(* What the server and the environment may do.                             *)
(***************************************************************************)
ChatOk(text) ==
    [net |-> TRUE, err |-> "", status |-> 200, json |-> TRUE, has_text |-> "str",
     text |-> text]

\* a JSON body without "text", or with "text": null
ChatWithout(how) == [ChatOk(<<>>) EXCEPT !.has_text = how]

ChatHttp(status) == [ChatOk(<<>>) EXCEPT !.status = status]

ChatBadJson == [ChatOk(<<>>) EXCEPT !.json = FALSE, !.err = "Expecting value"]

ChatDown == [ChatOk(<<>>) EXCEPT !.net = FALSE, !.err = "Cannot connect to host"]

NoJson == [kind |-> "missing", int |-> 0, str |-> ""]

JsonInt(n) == [kind |-> "int", int |-> n, str |-> ""]

JsonStr(str) == [kind |-> "str", int |-> 0, str |-> str]

JsonNull == [kind |-> "null", int |-> 0, str |-> ""]

ExecOk(data, count, accounts) ==
    [net |-> TRUE, err |-> "", status |-> 200, json |-> TRUE, data |-> data,
     count |-> count, accounts |-> accounts]

ExecCount(count) == ExecOk("object", count, 0)

ExecAccounts(n) == ExecOk("list", NoJson, n)

ExecHttp(status) == [ExecOk("missing", NoJson, 0) EXCEPT !.status = status]

ExecDown == [ExecOk("missing", NoJson, 0) EXCEPT !.net = FALSE, !.err = "Cannot connect to host"]

Tool(name) == [name |-> name, inputSchema |-> "dict_with_properties"]

\* a ListToolsResult, iterated: its fields as (key, value) pairs
Advertised(tools) ==
    [raises |-> FALSE, err |-> "",
     items |-> << [key |-> "meta", value |-> <<>>],
                  [key |-> "nextCursor", value |-> <<>>],
                  [key |-> "tools", value |-> tools] >>]

ListToolsRaises == [raises |-> TRUE, err |-> "Connection closed", items |-> <<>>]

OtherTools == <<"send_email", "create_folder", "rename_folder", "delete_folder">>

\* the expected catalog with some names left out, some others added and some
\* of its own advertised twice
Catalog(removed, others, doubled) ==
    LET names == SelectSeq(EXPECTED_TOOLS, LAMBDA n : n \notin removed)
                 \o SelectSeq(OtherTools, LAMBDA n : n \in others)
                 \o SelectSeq(EXPECTED_TOOLS, LAMBDA n : n \in doubled)
    IN [i \in 1..Len(names) |-> Tool(names[i])]

Catalogs ==
    LET n == Len(EXPECTED_TOOLS)
    IN { Catalog(r, a, d) :
           r \in SUBSET { EXPECTED_TOOLS[i] : i \in 1..MaxChanged },
           a \in SUBSET { OtherTools[i] : i \in 1..MaxChanged },
           d \in SUBSET { EXPECTED_TOOLS[i] : i \in (n - MaxChanged + 1)..n } }

ExactCatalog == Catalog({}, {}, {})

CallToolOk == [raises |-> FALSE, err |-> <<>>]

CallToolRaises(error) == [raises |-> TRUE, err |-> error]

GoodText == <<"[", "P", "r", "o", "v", "i", "d", "e", "r", ":", " ", "x", "]", "\n", "Y", "o", "u", " ", "h", "a", "v", "e", " ", "4", "2", " ", "e", "m", "a", "i", "l", "s", ".">>
NoNumberText == <<"Y", "o", "u", " ", "h", "a", "v", "e", " ", "n", "o", " ", "e", "m", "a", "i", "l", "s", ".">>
ErrorText == <<"E", "r", "r", "o", "r", ":", " ", "t", "o", "o", "l", " ", "5", " ", "f", "a", "i", "l", "e", "d">>
TagDigitText == <<"[", "P", "r", "o", "v", "i", "d", "e", "r", ":", " ", "g", "p", "t", "4", "]", "\n", "Y", "o", "u", " ", "h", "a", "v", "e", " ", "n", "o", " ", "e", "m", "a", "i", "l", "s", ".">>

ChatQueries ==
    {"Hello", AccountQuery, CountQuery} \cup { FolderQuery(folders_to_test[i]) : i \in 1..3 }

\* a server that answers every request as the suites hope
GoodServer ==
    [chat |-> [q \in ChatQueries |-> ChatOk(GoodText)],
     execute |-> [t \in {"count_emails_in_folder", "list_accounts"} |->
                    IF t = "list_accounts" THEN ExecAccounts(1) ELSE ExecCount(JsonInt(42))],
     list_tools |-> Advertised(ExactCatalog),
     call_tool |-> CallToolOk]

GoodEnv ==
    [sdk_installed |-> TRUE, debug_binary |-> TRUE, release_binary |-> TRUE,
     stdio_client_ok |-> TRUE, client_session_ok |-> TRUE, handshake_ok |-> TRUE,
     aclose_ok |-> TRUE]

\* everything in place, or one thing wrong, or neither binary built
Envs ==
    { e \in [DOMAIN GoodEnv -> BOOLEAN] :
        \/ Cardinality({f \in DOMAIN GoodEnv : ~e[f]}) <= 1
        \/ {f \in DOMAIN GoodEnv : ~e[f]} = {"debug_binary", "release_binary"} }

\* the checks that suspend, and so can be resumed with an error
Suspending(tests) == Range(tests) \ {"test_initialize_handshake"}

InitState ==
    /\ pending_exc = FALSE
    /\ success = "None"
    /\ exit_status = -1
    /\ exit_stack = <<>>
    /\ binary_path = ""
    /\ released = <<>>
    /\ cleanup_calls = 0
    /\ cleanup_raised = ""
    /\ test_results = NoResults
    /\ ret = [c \in AllTests |-> "pending"]
    /\ recorded = [c \in AllTests |-> [passed |-> 0, failed |-> 0]]
    /\ numbers = <<>>
    /\ chatbot_count = <<>>
    /\ folder_idx = 1
    /\ all_passed = TRUE
    /\ missing_tools = <<>>
    /\ extra_tools = <<>>
    /\ expected_tools = EXPECTED_TOOLS
    /\ content = <<>>
    /\ file_access = "rw"
    /\ add_result = "None"
    /\ added = 0
    /\ skipped = 0
    /\ license_runs = 0

\* python scripts/test_mcp_client.py [--transport ...]
InitMCP ==
    /\ args \in [test_chatbot : {FALSE}, transport : {"stdio", "http"}]
    /\ env \in Envs
    /\ server \in { [GoodServer EXCEPT !.list_tools = lt, !.call_tool = ct] :
                      lt \in { Advertised(ExactCatalog), ListToolsRaises,
                               Advertised(Catalog({EXPECTED_TOOLS[1]}, {}, {})),
                               Advertised(Catalog({EXPECTED_TOOLS[1]}, {OtherTools[1]}, {})),
                               Advertised([ExactCatalog EXCEPT ![1].inputSchema = "None"]) },
                      ct \in { CallToolOk, CallToolRaises(NoAccountsConfigured),
                               CallToolRaises(<<"C", "o", "n", "n", "e", "c", "t", "i", "o", "n", " ", "c", "l", "o", "s", "e", "d">>) } }
    /\ escapes \in { e \in SUBSET Suspending(MCPTests) : Cardinality(e) <= 1 }

\* python scripts/test_mcp_client.py --test-chatbot
InitChatbot ==
    /\ args = [test_chatbot |-> TRUE, transport |-> "stdio"]
    /\ env = GoodEnv
    /\ server \in
         { GoodServer,
           [GoodServer EXCEPT !.chat = [q \in ChatQueries |-> ChatHttp(500)],
                              !.execute = [t \in DOMAIN GoodServer.execute |-> ExecHttp(500)]],
           [GoodServer EXCEPT !.chat = [q \in ChatQueries |-> ChatDown]],
           [GoodServer EXCEPT !.chat = [q \in ChatQueries |-> ChatOk(NoNumberText)]],
           [GoodServer EXCEPT !.chat = [q \in ChatQueries |-> ChatOk(ErrorText)]],
           [GoodServer EXCEPT !.chat = [q \in ChatQueries |-> ChatWithout("missing")]],
           [GoodServer EXCEPT !.execute["count_emails_in_folder"] = ExecCount(JsonInt(41))],
           [GoodServer EXCEPT !.execute["list_accounts"] = ExecAccounts(0)],
           [GoodServer EXCEPT !.execute["list_accounts"] = ExecAccounts(2),
                              !.execute["count_emails_in_folder"] = ExecCount(JsonInt(41))],
           [GoodServer EXCEPT !.chat = [q \in ChatQueries |-> ChatOk(TagDigitText)]] }
    /\ escapes \in { e \in SUBSET Suspending(ChatbotTests) : Cardinality(e) <= 1 }

Init ==
    /\ InitState
    /\ session = "None"
    /\ run_pc = "main"
    /\ pc = [c \in AllTests |-> "absent"]
    /\ InitMCP \/ InitChatbot

CheckStep ==
    \/ TestInitializeHandshake
    \/ TestListToolsStart
    \/ TestListToolsResponse
    \/ TestToolSchemasStart
    \/ TestToolSchemasResponse
    \/ TestSimpleToolCallStart
    \/ TestSimpleToolCallResponse
    \/ TestChatbotEndpointBasicStart
    \/ TestChatbotEndpointBasicResponse
    \/ TestChatbotWithAccountIdStart
    \/ TestChatbotWithAccountIdResponse
    \/ TestChatbotEmailCountAccuracyStart
    \/ TestChatbotEmailCountAccuracyChatbot
    \/ TestChatbotEmailCountAccuracyMcp
    \/ TestFolderParameterHandlingStart
    \/ TestFolderParameterHandlingResponse
    \/ TestAccountIsolationStart
    \/ TestAccountIsolationAccounts
    \/ TestAccountIsolationChatbot
    \/ \E c \in AllTests : CheckRaises(c)

RunStep == MainStart \/ RunInitialize \/ Summarize \/ RunFinally \/ MainExit

Next == RunStep \/ CheckStep

Spec == Init /\ [][Next]_vars

(***************************************************************************)
(* The MCP suite alone, with the scheduling the event loop guarantees: a   *)
(* step of main or run_all_tests that can run does run.  Nothing makes the *)
(* server answer.                                                          *)
(***************************************************************************)
InitLive ==
    /\ InitState
    /\ session = "None"
    /\ run_pc = "main"
    /\ pc = [c \in AllTests |-> "absent"]
    /\ InitMCP

NextLive ==
    \/ RunStep
    \/ TestInitializeHandshake
    \/ TestListToolsStart
    \/ TestListToolsResponse
    \/ TestToolSchemasStart
    \/ TestToolSchemasResponse
    \/ TestSimpleToolCallStart
    \/ TestSimpleToolCallResponse
    \/ \E c \in Range(MCPTests) : CheckRaises(c)

LiveSpec == InitLive /\ [][NextLive]_vars /\ WF_vars(RunStep)

\* the part of a gathered check that the event loop runs by itself: up to
\* its first request
StartStep ==
    \/ TestInitializeHandshake
    \/ TestListToolsStart
    \/ TestToolSchemasStart
    \/ TestSimpleToolCallStart

\* list_tools() and call_tool() are awaited on a ClientSession built without
\* a read timeout and under no wait_for: the await ends when the server
\* answers or an error is thrown into it, and nothing in the tester makes
\* either happen.  So the checks' own steps are fair, the answers are not.
WaitSpec == InitLive /\ [][NextLive]_vars /\ WF_vars(RunStep) /\ WF_vars(StartStep)

(***************************************************************************)
(* test_chatbot_email_count_accuracy alone, over every short response text *)
(* and every kind of answer of the direct tool.                            *)
(***************************************************************************)
TextSymbols == {"0", "1", "a", " ", "\n", "[Provider:"}

RECURSIVE TextOf(_)
TextOf(symbols) ==
    IF symbols = <<>> THEN <<>>
    ELSE (IF Head(symbols) = "[Provider:" THEN ProviderPrefix ELSE <<Head(symbols)>>)
         \o TextOf(Tail(symbols))

Texts == { TextOf(q) : q \in UNION { [1..n -> TextSymbols] : n \in 0..MaxChars } }

CountChatCases ==
    { ChatOk(t) : t \in Texts \cup {GoodText} }
        \cup { ChatHttp(500), ChatDown, ChatBadJson, ChatWithout("missing"),
               ChatWithout("null") }

CountExecCases ==
    { ExecCount(JsonInt(n)) : n \in 0..MaxCount \cup {10, 11, 41, 42} }
        \cup { ExecCount(JsonStr("1")), ExecCount(JsonNull), ExecCount(NoJson),
               ExecOk("missing", NoJson, 0), ExecOk("null", NoJson, 0),
               ExecOk("list", NoJson, 0), ExecHttp(500), ExecDown }

\* the short texts and the counts near them: every text meets these counts,
\* and every answer of the direct tool meets these texts
CountChatCore == { c \in CountChatCases : Len(c.text) <= 2 \/ c.text = GoodText }

CountExecCore == { ExecCount(JsonInt(n)) : n \in 0..MaxCount }

CountPairs ==
    { p \in CountChatCases \X CountExecCases :
        p[1] \in CountChatCore \/ p[2] \in CountExecCore }

InitCount ==
    /\ InitState
    /\ session = "None"
    /\ run_pc = "unit"
    /\ pc = [d \in AllTests |->
               IF d = "test_chatbot_email_count_accuracy" THEN "ready" ELSE "absent"]
    /\ env = GoodEnv
    /\ escapes = {}
    /\ args = [test_chatbot |-> TRUE, transport |-> "stdio"]
    /\ server \in { [GoodServer EXCEPT !.chat[CountQuery] = p[1],
                                       !.execute["count_emails_in_folder"] = p[2]] :
                      p \in CountPairs }

NextCount ==
    \/ TestChatbotEmailCountAccuracyStart
    \/ TestChatbotEmailCountAccuracyChatbot
    \/ TestChatbotEmailCountAccuracyMcp

SpecCount == InitCount /\ [][NextCount]_vars

(***************************************************************************)
(* test_list_tools alone, over the catalogs a server may advertise, called *)
(* on a tester whose session is open or, as its first lines provide for,   *)
(* on one that has none.                                                   *)
(***************************************************************************)
InitCatalog ==
    /\ InitState
    /\ session \in {"None", "ClientSession"}
    /\ run_pc = "unit"
    /\ pc = [d \in AllTests |-> IF d = "test_list_tools" THEN "ready" ELSE "absent"]
    /\ env = GoodEnv
    /\ escapes = {}
    /\ args = [test_chatbot |-> FALSE, transport |-> "stdio"]
    /\ server \in { [GoodServer EXCEPT !.list_tools = lt] :
                      lt \in { Advertised(c) : c \in Catalogs \cup {<<>>} }
                                 \cup {ListToolsRaises} }

NextCatalog == TestListToolsStart \/ TestListToolsResponse

SpecCatalog == InitCatalog /\ [][NextCatalog]_vars

(***************************************************************************)
(* test_list_tools and test_tool_schemas gathered on an open session, over *)
(* short catalogs of tools of every shape and the expected catalog with    *)
(* one schema changed.                                                     *)
(***************************************************************************)
\* what a tool's inputSchema may be: None, an empty dict, a list, a string,
\* a dict with a "properties" key, a dict without one
SchemaKinds ==
    {"None", "{}", "list", "str", "dict_with_properties", "dict_without_properties"}

\* the catalogs of n tools: the i-th carries the i-th expected name and a
\* schema of some kind, or no name and a schema that would do
Descriptors(n) ==
    { [i \in 1..n |->
          IF kind[i] = "nameless"
          THEN [name |-> "", inputSchema |-> "dict_with_properties"]
          ELSE [name |-> EXPECTED_TOOLS[i], inputSchema |-> kind[i]]] :
        kind \in [1..n -> SchemaKinds \cup {"nameless"}] }

SchemaCatalogs ==
    UNION { Descriptors(n) : n \in 0..MaxTools }
        \cup { [ExactCatalog EXCEPT ![i].inputSchema = kind] :
                 i \in {1, Len(EXPECTED_TOOLS)}, kind \in SchemaKinds }

InitSchemas ==
    /\ InitState
    /\ session = "ClientSession"
    /\ run_pc = "unit"
    /\ pc = [d \in AllTests |->
               IF d \in {"test_list_tools", "test_tool_schemas"} THEN "ready" ELSE "absent"]
    /\ env = GoodEnv
    /\ escapes = {}
    /\ args = [test_chatbot |-> FALSE, transport |-> "stdio"]
    /\ server \in { [GoodServer EXCEPT !.list_tools = lt] :
                      lt \in { Advertised(c) : c \in SchemaCatalogs } \cup {ListToolsRaises} }

NextSchemas ==
    \/ TestListToolsStart
    \/ TestListToolsResponse
    \/ TestToolSchemasStart
    \/ TestToolSchemasResponse

SpecSchemas == InitSchemas /\ [][NextSchemas]_vars

(***************************************************************************)
(* A tester used directly: initialize() at most once, cleanup() before     *)
(* it, after it, or again.                                                 *)
(***************************************************************************)
\* as Envs, and closing the contexts may fail whatever else does
SessionEnvs == { e \in [DOMAIN GoodEnv -> BOOLEAN] : [e EXCEPT !.aclose_ok = TRUE] \in Envs }

InitSession ==
    /\ InitState
    /\ session = "None"
    /\ run_pc = "constructed"
    /\ pc = [d \in AllTests |-> "absent"]
    /\ args \in [test_chatbot : {FALSE}, transport : {"stdio", "http"}]
    /\ env \in SessionEnvs
    /\ server = GoodServer
    /\ escapes = {}

\* await tester.initialize(), its error, if any, caught by the caller
CallInitialize ==
    /\ run_pc = "constructed"
    /\ LET o == Initialize(args.transport, env)
       IN /\ exit_stack' = exit_stack \o o.exit_stack
          /\ session' = o.session
          /\ binary_path' = o.binary_path
    /\ run_pc' = "initialized"
    /\ UNCHANGED <<inputVars, pending_exc, success, exit_status, released,
                   cleanup_calls, cleanup_raised, checkVars, localVars>>

\* await tester.cleanup()
CallCleanup ==
    /\ run_pc \in {"constructed", "initialized"}
    /\ cleanup_calls < MaxCleanups
    /\ LET o == Cleanup(exit_stack, session, env)
       IN /\ exit_stack' = o.exit_stack
          /\ released' = released \o o.released
          /\ session' = o.session
          /\ cleanup_raised' = o.raised
    /\ cleanup_calls' = cleanup_calls + 1
    /\ UNCHANGED <<inputVars, runVars, binary_path, checkVars, localVars>>

NextSession == CallInitialize \/ CallCleanup

SpecSession == InitSession /\ [][NextSession]_vars

(***************************************************************************)
(* log_test called directly on a new tester, with names and details the    *)
(* checks use.                                                             *)
(***************************************************************************)
InitLog ==
    /\ InitState
    /\ session = "None"
    /\ run_pc = "unit"
    /\ pc = [d \in AllTests |-> "absent"]
    /\ env = GoodEnv
    /\ escapes = {}
    /\ args = [test_chatbot |-> FALSE, transport |-> "stdio"]
    /\ server = GoodServer

\* tester.log_test(test_name, passed, error), or with error left to its
\* default, None, which the f-string writes as "None"
CallLogTest ==
    /\ test_results.passed + test_results.failed < MaxLogged
    /\ \E test_name \in {"Tool count", "List tools", "Schema: list_folders"},
          passed \in BOOLEAN,
          error \in {"None", "Missing name"} :
          test_results' = LogTest(test_results, test_name, passed, error)
    /\ UNCHANGED <<inputVars, runVars, sessionVars, localVars, pc, ret, recorded>>

SpecLog == InitLog /\ [][CallLogTest]_vars

(***************************************************************************)
(* add-license-headers.py, run over one file that find_files returned and  *)
(* that can be read and written.                                           *)
(***************************************************************************)
LICENSE_HEADER ==
    << "/", "/", " ", "C", "o", "p", "y", "r", "i", "g", "h", "t", " ", "(",
       "c", ")", " ", "2", "0", "2", "5", " ", "T", "e", "x", "a", "s", "F",
       "o", "r", "t", "r", "e", "s", "s", ".", "A", "I", "\n", "/", "/",
       " ", "T", "h", "i", "s", " ", "S", "o", "u", "r", "c", "e", " ", "C",
       "o", "d", "e", " ", "F", "o", "r", "m", " ", "i", "s", " ", "s", "u",
       "b", "j", "e", "c", "t", " ", "t", "o", " ", "t", "h", "e", " ", "t",
       "e", "r", "m", "s", " ", "o", "f", " ", "t", "h", "e", " ", "M", "o",
       "z", "i", "l", "l", "a", " ", "P", "u", "b", "l", "i", "c", "\n",
       "/", "/", " ", "L", "i", "c", "e", "n", "s", "e", ",", " ", "v", ".",
       " ", "2", ".", "0", ".", " ", "I", "f", " ", "a", " ", "c", "o", "p",
       "y", " ", "o", "f", " ", "t", "h", "e", " ", "M", "P", "L", " ", "w",
       "a", "s", " ", "n", "o", "t", " ", "d", "i", "s", "t", "r", "i", "b",
       "u", "t", "e", "d", " ", "w", "i", "t", "h", " ", "t", "h", "i", "s",
       "\n", "/", "/", " ", "f", "i", "l", "e", ",", " ", "Y", "o", "u",
       " ", "c", "a", "n", " ", "o", "b", "t", "a", "i", "n", " ", "o", "n",
       "e", " ", "a", "t", " ", "h", "t", "t", "p", ":", "/", "/", "m", "o",
       "z", "i", "l", "l", "a", ".", "o", "r", "g", "/", "M", "P", "L", "/",
       "2", ".", "0", "/", ".", "\n", "\n" >>

\* ''.join(f.readlines()[:n]): the first n lines, each with its line end
\* open(file_path, 'r', encoding='utf-8') and what is read through it: a
\* file opened in text mode is read with universal newlines, "\r\n" and a
\* lone "\r" both arriving as "\n"
UniversalNewlines(text) ==
    LET read == [i \in 1..Len(text) |->
                    IF text[i] /= "\r" THEN text[i]
                    ELSE IF i < Len(text) /\ text[i + 1] = "\n" THEN "" ELSE "\n"]
    IN SelectSeq(read, LAMBDA c : c /= "")

RECURSIVE FirstLines(_, _)
FirstLines(s, n) ==
    IF n = 0 \/ s = <<>> THEN <<>>
    ELSE IF \A i \in 1..Len(s) : s[i] /= "\n" THEN s
    ELSE LET i == CHOOSE k \in 1..Len(s) :
                      s[k] = "\n" /\ \A j \in 1..(k - 1) : s[j] /= "\n"
         IN SubSeq(s, 1, i) \o FirstLines(SubSeq(s, i + 1, Len(s)), n - 1)

\* has_license_header: 'Mozilla Public License' in the first five lines
HasLicenseHeader(text) ==
    Contains(FirstLines(UniversalNewlines(text), 5),
             << "M", "o", "z", "i", "l", "l", "a", " ", "P", "u", "b", "l",
                "i", "c", " ", "L", "i", "c", "e", "n", "s", "e" >>)

\* add_license_to_file: what it writes back over the file, given the file's
\* text; on a POSIX system "\n" is written as it is
AddLicenseToFile(text) ==
    LET read == UniversalNewlines(text)
    IN IF StartsWith(read, <<"#", "!">>)
       THEN LET lines == IF \A i \in 1..Len(read) : read[i] /= "\n" THEN <<read>>
                         ELSE LET i == CHOOSE k \in 1..Len(read) :
                                           read[k] = "\n"
                                              /\ \A j \in 1..(k - 1) : read[j] /= "\n"
                              IN <<SubSeq(read, 1, i - 1), SubSeq(read, i + 1, Len(read))>>
            IN lines[1] \o <<"\n", "\n">> \o LICENSE_HEADER
                  \o (IF Len(lines) > 1 THEN lines[2] ELSE <<>>)
       ELSE LICENSE_HEADER \o read

\* the files: up to MaxLines lines, each a shebang, a line of code or a
\* comment that names the license, with or without a last line end, the
\* line ends being all "\n" or all "\r\n"
SourceFiles ==
    LET kinds == { << "#", "!", "/", "b", "i", "n", "/", "s", "h" >>,
                   << "f", "n", " ", "x", "(", ")", ";" >>,
                   << "/", "/", " ", "M", "o", "z", "i", "l", "l", "a", " ",
                  "P", "u", "b", "l", "i", "c", " ", "L", "i", "c", "e",
                  "n", "s", "e" >> }
        texts == UNION { [1..n -> kinds] : n \in 0..MaxLines }
        joined == { Join(ls) : ls \in texts }
        crlf == { Join([i \in 1..Len(ls) |->
                          IF i < Len(ls) THEN ls[i] \o <<"\r">> ELSE ls[i]]) : ls \in texts }
    IN joined \cup { f \o <<"\n">> : f \in joined }
          \cup crlf \cup { f \o <<"\r", "\n">> : f \in crlf }

InitLicense ==
    /\ args = [test_chatbot |-> FALSE, transport |-> "stdio"]
    /\ env = GoodEnv
    /\ server = GoodServer
    /\ escapes = {}
    /\ run_pc = "unit"
    /\ pending_exc = FALSE
    /\ success = "None"
    /\ exit_status = -1
    /\ session = "None"
    /\ exit_stack = <<>>
    /\ binary_path = ""
    /\ released = <<>>
    /\ cleanup_calls = 0
    /\ cleanup_raised = ""
    /\ test_results = NoResults
    /\ pc = [c \in AllTests |-> "absent"]
    /\ ret = [c \in AllTests |-> "pending"]
    /\ recorded = [c \in AllTests |-> [passed |-> 0, failed |-> 0]]
    /\ numbers = <<>>
    /\ chatbot_count = <<>>
    /\ folder_idx = 1
    /\ all_passed = TRUE
    /\ missing_tools = <<>>
    /\ extra_tools = <<>>
    /\ expected_tools = EXPECTED_TOOLS
    /\ content \in SourceFiles
    /\ file_access \in {"rw", "read_only", "unreadable"}
    /\ add_result = "None"
    /\ added = 0
    /\ skipped = 0
    /\ license_runs = 0

\* main, for the one file: skipped when has_license_header says so (it says
\* so of a file it cannot read, too), the header added otherwise, and the
\* file counted as added when add_license_to_file returned True
LicenseMain ==
    /\ license_runs < MaxRuns
    /\ IF file_access = "unreadable" \/ HasLicenseHeader(content)
       THEN /\ added' = 0
            /\ skipped' = 1
            /\ UNCHANGED <<content, add_result>>
       ELSE /\ IF file_access = "rw"
               THEN content' = AddLicenseToFile(content) /\ add_result' = "True"
               ELSE content' = content /\ add_result' = "False"
            /\ added' = IF file_access = "rw" THEN 1 ELSE 0
            /\ skipped' = 0
    /\ license_runs' = license_runs + 1
    /\ UNCHANGED <<inputVars, runVars, sessionVars, checkVars, countVars, folderVars,
                   diffVars, file_access>>

SpecLicense == InitLicense /\ [][LicenseMain]_vars

\* add_license_to_file called once on the file: opening it for reading or
\* for writing may raise, which the except branch turns into False with the
\* file as it was
CallAddLicenseToFile ==
    /\ add_result = "None"
    /\ IF file_access = "rw"
       THEN content' = AddLicenseToFile(content) /\ add_result' = "True"
       ELSE content' = content /\ add_result' = "False"
    /\ UNCHANGED <<inputVars, runVars, sessionVars, checkVars, countVars, folderVars,
                   diffVars, file_access, added, skipped, license_runs>>

SpecAddLicense == InitLicense /\ [][CallAddLicenseToFile]_vars

(***************************************************************************)
(* What the claims speak of, said without the code's own steps.            *)
(***************************************************************************)
CountCheck == "test_chatbot_email_count_accuracy"

ChatbotAnswer == server.chat[CountQuery]

DirectAnswer == server.execute["count_emails_in_folder"]

\* the chatbot answered 200 with a JSON body whose "text" is a string
ChatbotAnswered ==
    /\ ChatbotAnswer.net
    /\ ChatbotAnswer.status = 200
    /\ ChatbotAnswer.json
    /\ ChatbotAnswer.has_text = "str"

\* the direct tool answered 200 with a JSON body whose data.count is a value
DirectAnswered ==
    /\ DirectAnswer.net
    /\ DirectAnswer.status = 200
    /\ DirectAnswer.json
    /\ DirectAnswer.data = "object"
    /\ DirectAnswer.count.kind \in {"int", "str"}

\* position i of text t lies on a line that starts with the provider tag
OnProviderLine(t, i) ==
    i <= Len(t) /\ \E b \in 1..i :
        /\ b = 1 \/ t[b - 1] = "\n"
        /\ \A k \in b..i : t[k] /= "\n"
        /\ b + Len(ProviderPrefix) - 1 <= Len(t)
        /\ \A k \in 1..Len(ProviderPrefix) : t[b + k - 1] = ProviderPrefix[k]

WordChar(c) ==
    c \in LetterChars \cup {"0", "1", "2", "3", "4", "5", "6", "7", "8", "9"}

DecimalDigit(c) == WordChar(c) /\ c \notin LetterChars

\* t[i..j] is a run of decimal digits with no word character on either side
IsToken(t, i, j) ==
    /\ i <= j
    /\ \A k \in i..j : DecimalDigit(t[k])
    /\ i = 1 \/ ~WordChar(t[i - 1])
    /\ j = Len(t) \/ ~WordChar(t[j + 1])

\* the integer tokens of t outside its provider-tag lines, as <<i, j>>
ContentTokens(t) ==
    { ij \in (1..Len(t)) \X (1..Len(t)) :
        IsToken(t, ij[1], ij[2]) /\ ~OnProviderLine(t, ij[1]) }

\* the integer tokens on the provider-tag lines of t
TagTokens(t) ==
    { ij \in (1..Len(t)) \X (1..Len(t)) :
        IsToken(t, ij[1], ij[2]) /\ OnProviderLine(t, ij[1]) }

FirstToken(T) == CHOOSE ij \in T : \A kl \in T : ij[1] <= kl[1]

Pow10(n) == IF n = 0 THEN 1 ELSE IF n = 1 THEN 10 ELSE IF n = 2 THEN 100
            ELSE IF n = 3 THEN 1000 ELSE 10000

RECURSIVE Sum(_, _)
Sum(f, S) == IF S = {} THEN 0
             ELSE LET x == CHOOSE y \in S : TRUE IN f[x] + Sum(f, S \ {x})

\* the number the token t[i..j] writes
TokenValue(t, ij) ==
    Sum([k \in ij[1]..ij[2] |->
            (CHOOSE d \in 0..9 : Digits[d + 1] = t[k]) * Pow10(ij[2] - k)],
        ij[1]..ij[2])

CountCheckDone == pc[CountCheck] = "done"

\* the count check recorded one failure and nothing else
OneFailure ==
    /\ test_results.failed = 1
    /\ test_results.passed = 0
    /\ Len(test_results.errors) = 1
    /\ ret[CountCheck] = "False"

\* the count check recorded one pass and nothing else
OnePass ==
    /\ test_results.passed = 1
    /\ test_results.failed = 0
    /\ test_results.errors = <<>>
    /\ ret[CountCheck] = "True"

\* C1: once the count check has both values, it records a pass exactly when
\* the integer taken from the chatbot's text and the direct tool's count are
\* the same integer, and a failure (never a pass) for every other pair.
C1_PassIffCountsEqual ==
    (CountCheckDone /\ chatbot_count /= <<>> /\ DirectAnswered) =>
        /\ OnePass \/ OneFailure
        /\ OnePass <=> /\ DirectAnswer.count.kind = "int"
                       /\ DirectAnswer.count.int = chatbot_count[1]

C1_Witness_OffByOne ==
    /\ CountCheckDone
    /\ DirectAnswered
    /\ chatbot_count = <<1>>
    /\ DirectAnswer.count = JsonInt(2)
    /\ OneFailure

\* C8: the numbers the count check finds are the integer tokens outside the
\* provider-tag lines, so no digit of a provider-tag line is ever taken; and
\* when the text opens with a provider-tag line and the rest holds one
\* integer, that integer is the extracted value.
C8_ProviderDigitsNeverSelected ==
    (ChatbotAnswered /\ pc[CountCheck] \in {"await_mcp", "done"}) =>
        LET t == ChatbotAnswer.text
            T == ContentTokens(t)
        IN /\ Len(numbers) = Cardinality(T)
           /\ \A n \in 1..Len(numbers) :
                 \E ij \in T : numbers[n] = SubSeq(t, ij[1], ij[2])
           /\ (OnProviderLine(t, 1) /\ Cardinality(T) = 1) =>
                 chatbot_count = <<TokenValue(t, FirstToken(T))>>

C8_Witness_TagWithDigits ==
    /\ ChatbotAnswered
    /\ pc[CountCheck] = "await_mcp"
    /\ OnProviderLine(ChatbotAnswer.text, 1)
    /\ TagTokens(ChatbotAnswer.text) /= {}
    /\ Cardinality(ContentTokens(ChatbotAnswer.text)) = 1
    /\ chatbot_count = <<1>>

DigitName(d) ==
    CASE d = 0 -> "0" [] d = 1 -> "1" [] d = 2 -> "2" [] d = 3 -> "3" [] d = 4 -> "4"
      [] d = 5 -> "5" [] d = 6 -> "6" [] d = 7 -> "7" [] d = 8 -> "8" [] d = 9 -> "9"

\* a natural number written in decimal
RECURSIVE Decimal(_)
Decimal(n) == IF n < 10 THEN DigitName(n) ELSE Decimal(n \div 10) \o DigitName(n % 10)

\* the direct tool's count as the server sent it
DirectText ==
    IF DirectAnswer.count.kind = "int" THEN Decimal(DirectAnswer.count.int)
    ELSE DirectAnswer.count.str

\* the count check came to compare two values and they differ
CountsCompared == CountCheckDone /\ chatbot_count /= <<>> /\ DirectAnswered

ValuesDiffer ==
    ~(DirectAnswer.count.kind = "int" /\ DirectAnswer.count.int = chatbot_count[1])

\* C9 as stated: when the two values differ, the failure detail is
\* "Mismatch: chatbot=<chatbot value>, direct=<direct value>".
C9_Original_DirectLabel ==
    (CountsCompared /\ ValuesDiffer) =>
        test_results.errors =
            << "Email count accuracy: Mismatch: chatbot=" \o Decimal(chatbot_count[1])
                  \o ", direct=" \o DirectText >>

\* C9, amended: when the two values differ, the one recorded failure carries
\* both values as they are, in the form
\* "Mismatch: chatbot=<chatbot value>, MCP=<direct value>".
C9_MismatchCarriesBothValues ==
    (CountsCompared /\ ValuesDiffer) =>
        /\ OneFailure
        /\ test_results.errors =
              << "Email count accuracy: Mismatch: chatbot=" \o Decimal(chatbot_count[1])
                    \o ", MCP=" \o DirectText >>

C9_Witness_42_41 ==
    /\ CountCheckDone
    /\ ChatbotAnswer.text = GoodText
    /\ DirectAnswer.count = JsonInt(41)
    /\ test_results.errors = <<"Email count accuracy: Mismatch: chatbot=42, MCP=41">>

\* C10: the extracted value is the first integer token of the text outside
\* its provider-tag lines; a text without such a token ends the check there
\* with one failed outcome and nothing else.
C10_FirstTokenOrOneFailure ==
    (ChatbotAnswered /\ pc[CountCheck] \in {"await_mcp", "done"}) =>
        LET t == ChatbotAnswer.text
            T == ContentTokens(t)
        IN /\ T /= {} => chatbot_count = <<TokenValue(t, FirstToken(T))>>
           /\ T = {} => CountCheckDone /\ OneFailure /\ chatbot_count = <<>>

C10_Witness_DigitsButNoToken ==
    /\ ChatbotAnswered
    /\ ContentTokens(ChatbotAnswer.text) = {}
    /\ \E i \in 1..Len(ChatbotAnswer.text) :
          DecimalDigit(ChatbotAnswer.text[i]) /\ ~OnProviderLine(ChatbotAnswer.text, i)
    /\ CountCheckDone
    /\ OneFailure

\* the names the server advertises, in the order it lists them
AdvertisedNames ==
    LET tools == server.list_tools.items[3].value
    IN [i \in 1..Len(tools) |-> tools[i].name]

CatalogChecked ==
    /\ pc["test_list_tools"] = "done"
    /\ session /= "None"
    /\ ~server.list_tools.raises

CatalogMatches ==
    /\ Len(AdvertisedNames) = Len(EXPECTED_TOOLS)
    /\ Range(AdvertisedNames) = Range(EXPECTED_TOOLS)

\* C2: the catalog check passes exactly when the advertised collection has as
\* many entries as the expected catalog and the same names; in every other
\* case it fails.
C2_CatalogPassIffEqual ==
    CatalogChecked =>
        /\ CatalogMatches =>
              ret["test_list_tools"] = "True" /\ test_results.failed = 0
        /\ ~CatalogMatches =>
              ret["test_list_tools"] = "False" /\ test_results.failed >= 1

C2_Witness_SameSizeOtherNames ==
    /\ CatalogChecked
    /\ Len(AdvertisedNames) = Len(EXPECTED_TOOLS)
    /\ Range(AdvertisedNames) /= Range(EXPECTED_TOOLS)
    /\ Range(AdvertisedNames) \subseteq Range(EXPECTED_TOOLS)
    /\ ret["test_list_tools"] = "False"

\* opening the session fails: the transport is not stdio, or a step of
\* initialize_stdio raises
InitFails ==
    /\ ~args.test_chatbot
    /\ \/ args.transport /= "stdio"
       \/ ~env.sdk_installed
       \/ ~env.debug_binary /\ ~env.release_binary
       \/ ~env.stdio_client_ok
       \/ ~env.client_session_ok
       \/ ~env.handshake_ok

\* C3: when opening the session fails, no check is ever started, nothing is
\* recorded in the results, run_all_tests returns no verdict, and the process
\* ends with a non-zero status.
C3_InitFailureIsFatal ==
    InitFails =>
        /\ \A c \in AllTests :
              pc[c] = "absent" /\ recorded[c] = [passed |-> 0, failed |-> 0]
        /\ test_results = NoResults
        /\ success = "None"
        /\ run_pc \notin {"gather", "returned"}
        /\ run_pc = "exited" => exit_status = 1

C3_Witness_ExitedAfterInitFailure ==
    /\ InitFails
    /\ run_pc = "exited"
    /\ exit_status = 1

MCPRunOver == ~args.test_chatbot /\ run_pc \in {"returned", "raised", "exited"}

\* the MCP run has left Running: opening failed, or every check settled
MCPRunningEnded ==
    /\ ~args.test_chatbot
    /\ \/ run_pc = "finally"
       \/ run_pc = "gather" /\ \A c \in Range(MCPTests) : pc[c] = "done"

\* C4: cleanup is never invoked twice; a run of the MCP suite that is over,
\* by return or by exception, has invoked it once; and once the run has left
\* Running, cleanup is eventually invoked.
C4_CleanupExactlyOnce ==
    /\ [](cleanup_calls <= 1)
    /\ [](MCPRunOver => cleanup_calls = 1)
    /\ [](MCPRunningEnded => <>(cleanup_calls = 1))

C4_Witness_CleanupAfterRaise ==
    /\ MCPRunOver
    /\ \E c \in Range(MCPTests) : ret[c] = "raised"
    /\ cleanup_calls = 1

\* C5: from the moment cleanup is about to begin, no dispatched check is
\* waiting for an answer or still to start.
C5_NoTeardownWhileOutstanding ==
    (run_pc = "finally" \/ cleanup_calls > 0) =>
        \A c \in AllTests : pc[c] \in {"absent", "done"}

C5_Witness_TeardownAfterCalls ==
    /\ cleanup_calls = 1
    /\ \A c \in Range(MCPTests) : pc[c] = "done"
    /\ ret["test_list_tools"] = "True"
    /\ ret["test_simple_tool_call"] = "True"

\* the summary was computed
Summarized == success /= "None"

\* C6 as stated: when a check raises, its siblings are all done and have
\* recorded outcomes of their own, and the raising check counts as a failure
\* whose error text is in the failure list: every counted failure has its
\* entry there.
C6_Original_RaisedCheckIsListed ==
    (Summarized /\ \E c \in Range(Tests) : ret[c] = "raised") =>
        /\ \A d \in Range(Tests) :
              ret[d] /= "raised" =>
                  pc[d] = "done" /\ recorded[d].passed + recorded[d].failed >= 1
        /\ Len(test_results.errors) = test_results.failed

\* C7: the verdict run_all_tests returns is true exactly when the failed
\* count is 0, and the process ends with status 0 exactly when that verdict
\* is true, with status 1 otherwise.
C7_VerdictAndExitStatus ==
    /\ Summarized => (success = "True" <=> test_results.failed = 0)
    /\ run_pc = "exited" =>
          /\ exit_status \in {0, 1}
          /\ exit_status = 0 <=> success = "True"

C7_Witness_ChatbotSuiteFails ==
    /\ run_pc = "exited"
    /\ args.test_chatbot
    /\ test_results.failed > 0
    /\ success = "False"
    /\ exit_status = 1


(***************************************************************************)
(* The catalog check's diff.                                               *)
(***************************************************************************)
\* E, the names expected, and A, the names advertised, as sets
ExpectedSet == { EXPECTED_TOOLS[i] : i \in 1..Len(EXPECTED_TOOLS) }

AdvertisedSet == { AdvertisedNames[i] : i \in 1..Len(AdvertisedNames) }

\* the failure list has an entry that is label followed by the names of S,
\* separated by ", ", in some order
Lists(label, S) ==
    \E o \in Orderings(S) :
        \E i \in 1..Len(test_results.errors) :
            test_results.errors[i] = label \o JoinNames(o)

CountFailure ==
    "Tool count: Expected " \o Decimal(Len(EXPECTED_TOOLS)) \o " tools, got "
        \o Decimal(Len(AdvertisedNames))

\* the check got as far as assigning missing_tools and extra_tools
DiffComputed == missing_tools /= <<>> /\ extra_tools /= <<>>

\* C11 as stated: when the advertised count differs from the expected count,
\* the catalog check records the tool count failure and still computes the
\* missing and the extra names and reports each non-empty set.
C11_Original_DiffAfterCountFailure ==
    (CatalogChecked /\ Len(AdvertisedNames) /= Len(EXPECTED_TOOLS)) =>
        /\ \E i \in 1..Len(test_results.errors) : test_results.errors[i] = CountFailure
        /\ missing_tools = <<ExpectedSet \ AdvertisedSet>>
        /\ extra_tools = <<AdvertisedSet \ ExpectedSet>>
        /\ ExpectedSet \ AdvertisedSet /= {} =>
              Lists("Missing tools: Missing: ", ExpectedSet \ AdvertisedSet)
        /\ AdvertisedSet \ ExpectedSet /= {} =>
              Lists("Extra tools: Unexpected: ", AdvertisedSet \ ExpectedSet)

\* C12 as stated: once the catalog check has the two sets, a non-empty
\* missing set is reported as a failure listing its names, and so is a
\* non-empty extra set; both when both are non-empty.
C12_Original_EachSetReported ==
    (CatalogChecked /\ DiffComputed) =>
        /\ missing_tools[1] /= {} =>
              Lists("Missing tools: Missing: ", missing_tools[1])
        /\ extra_tools[1] /= {} =>
              Lists("Extra tools: Unexpected: ", extra_tools[1])

\* C13 as stated: an empty advertised catalog makes the catalog check fail
\* with missing the whole expected set and extra empty, and the failure list
\* has more to say than the count.
C13_Original_EmptyCatalogAllMissing ==
    (CatalogChecked /\ AdvertisedNames = <<>>) =>
        /\ ret["test_list_tools"] = "False"
        /\ missing_tools = <<ExpectedSet>>
        /\ extra_tools = <<{}>>
        /\ \E i \in 1..Len(test_results.errors) : test_results.errors[i] /= CountFailure

\* C14: the two sets the catalog check computes are E minus A and A minus E:
\* they are disjoint, the first lies in E, the second in A, and together they
\* are the names of E union A that are not in both.
C14_DiffIsSymmetricDifference ==
    DiffComputed =>
        LET missing == missing_tools[1]
            extra == extra_tools[1]
        IN /\ missing \cap extra = {}
           /\ missing \subseteq ExpectedSet
           /\ extra \subseteq AdvertisedSet
           /\ missing \cup extra =
                 (ExpectedSet \cup AdvertisedSet) \ (ExpectedSet \cap AdvertisedSet)
           /\ \A n \in ExpectedSet \cup AdvertisedSet :
                 /\ n \in missing <=> (n \in ExpectedSet /\ n \notin AdvertisedSet)
                 /\ n \in extra <=> (n \in AdvertisedSet /\ n \notin ExpectedSet)

C14_Witness_BothSetsNonEmpty ==
    /\ pc["test_list_tools"] = "done"
    /\ DiffComputed
    /\ Cardinality(missing_tools[1]) = 2
    /\ Cardinality(extra_tools[1]) = 1


(***************************************************************************)
(* Schema validation.                                                      *)
(***************************************************************************)
SchemaCheck == "test_tool_schemas"

AdvertisedTools == server.list_tools.items[3].value

\* schema validation got the catalog and went through it
SchemasChecked == pc[SchemaCheck] = "done" /\ ~server.list_tools.raises

IsMapping(schema) == schema \in {"{}", "dict_with_properties", "dict_without_properties"}

\* the tool is as a ToolDescriptor must be: a non-empty name, a schema that is
\* not null, is a mapping and has a "properties" key
WellFormed(tool) ==
    /\ tool.name /= ""
    /\ tool.inputSchema /= "None"
    /\ IsMapping(tool.inputSchema)
    /\ tool.inputSchema = "dict_with_properties"

Malformed == { i \in 1..Len(AdvertisedTools) : ~WellFormed(AdvertisedTools[i]) }

\* the failure entries schema validation can write for a tool
SchemaFailures(tool) ==
    { "Schema: " \o tool.name \o ": " \o detail :
        detail \in {"Missing name", "Missing inputSchema", "Invalid schema type",
                    "Missing properties"} }

\* C15: schema validation records as many passes as there are well-formed
\* tools and as many failures as there are others; a tool with a name has a
\* failure entry under its name exactly when it is not well-formed.
C15_PassIffWellFormed ==
    SchemasChecked =>
        /\ recorded[SchemaCheck].passed = Len(AdvertisedTools) - Cardinality(Malformed)
        /\ recorded[SchemaCheck].failed = Cardinality(Malformed)
        /\ \A i \in 1..Len(AdvertisedTools) :
              AdvertisedTools[i].name /= "" =>
                  (i \in Malformed <=>
                      \E j \in 1..Len(test_results.errors) :
                          test_results.errors[j] \in SchemaFailures(AdvertisedTools[i]))

C15_Witness_EveryShape ==
    /\ SchemasChecked
    /\ Len(AdvertisedTools) = 3
    /\ WellFormed(AdvertisedTools[1])
    /\ AdvertisedTools[2].name /= "" /\ AdvertisedTools[2].inputSchema = "{}"
    /\ AdvertisedTools[3].name /= "" /\ AdvertisedTools[3].inputSchema = "list"
    /\ recorded[SchemaCheck] = [passed |-> 1, failed |-> 2]

\* the entries of the failure list that the catalog check did not write
SchemaEntries ==
    SelectSeq(test_results.errors,
              LAMBDA e : e /= CountFailure /\ e /= "List tools: Connection closed")

\* the malformed tools in the order advertised
RECURSIVE InOrder(_)
InOrder(S) ==
    IF S = {} THEN <<>>
    ELSE LET least == CHOOSE i \in S : \A j \in S : i <= j
         IN <<least>> \o InOrder(S \ {least})

OneLacksProperties ==
    /\ CatalogMatches
    /\ Cardinality(Malformed) = 1
    /\ \A i \in Malformed : AdvertisedTools[i].inputSchema = "dict_without_properties"

\* C16: schema validation records one outcome for each advertised tool: a
\* failure naming the tool for each malformed one, in the order advertised,
\* and a pass for each of the others.  When the advertised names are the
\* expected ones and one schema lacks "properties", the catalog check passes
\* and schema validation records one failure.
C16_OneOutcomePerTool ==
    /\ SchemasChecked =>
          /\ recorded[SchemaCheck].passed + recorded[SchemaCheck].failed
                = Len(AdvertisedTools)
          /\ Len(SchemaEntries) = Cardinality(Malformed)
          /\ \A k \in 1..Len(SchemaEntries) :
                SchemaEntries[k] \in SchemaFailures(AdvertisedTools[InOrder(Malformed)[k]])
    /\ (SchemasChecked /\ pc["test_list_tools"] = "done" /\ OneLacksProperties) =>
          /\ ret["test_list_tools"] = "True"
          /\ recorded["test_list_tools"].failed = 0
          /\ recorded[SchemaCheck] = [passed |-> Len(EXPECTED_TOOLS) - 1, failed |-> 1]
          /\ ret[SchemaCheck] = "False"

C16_Witness_OneLacksProperties ==
    /\ SchemasChecked
    /\ pc["test_list_tools"] = "done"
    /\ OneLacksProperties
    /\ ret["test_list_tools"] = "True"
    /\ test_results.errors = <<"Schema: set_current_account: Missing properties">>


(***************************************************************************)
(* Tool calls that fail.                                                   *)
(***************************************************************************)
ToolCallCheck == "test_simple_tool_call"

\* the check called list_accounts, the call raised, and the check handled it
ToolCallFailed ==
    /\ ~args.test_chatbot
    /\ pc[ToolCallCheck] = "done"
    /\ ret[ToolCallCheck] /= "raised"
    /\ server.call_tool.raises

\* C17 as stated: a tool call that fails inside a check is a failed outcome
\* of that check, never a pass, and does not abort the run.
C17_Original_ToolCallFailureFails ==
    ToolCallFailed =>
        /\ ret[ToolCallCheck] = "False"
        /\ recorded[ToolCallCheck] = [passed |-> 0, failed |-> 1]
        /\ ~pending_exc


(***************************************************************************)
(* The report.                                                             *)
(***************************************************************************)
\* C18 as stated: at summary time the failure list has one entry for each
\* counted failure, and the list only ever grows at its end, so its entries
\* stand in the order the failures were recorded.
C18_Original_EveryFailureListedInOrder ==
    /\ [](Summarized => Len(test_results.errors) = test_results.failed)
    /\ [][/\ Len(test_results.errors') >= Len(test_results.errors)
          /\ SubSeq(test_results.errors', 1, Len(test_results.errors))
                = test_results.errors]_vars


(***************************************************************************)
(* Teardown.                                                               *)
(***************************************************************************)
\* C19: no call of cleanup raises to its caller, whether the session was
\* never opened, its opening failed part way, it was closed before, or
\* closing a context fails; a call made before any opening leaves the stack
\* of contexts empty.
C19_CleanupNeverRaises ==
    /\ cleanup_raised = ""
    /\ (cleanup_calls > 0 /\ run_pc = "constructed") => exit_stack = <<>>

C19_Witness_SecondCallAfterFailedRelease ==
    /\ cleanup_calls = 2
    /\ ~env.aclose_ok
    /\ ~env.handshake_ok
    /\ released = <<"ClientSession", "stdio_client">>
    /\ exit_stack = <<>>
    /\ cleanup_raised = ""


(***************************************************************************)
(* Requests the server never answers.                                      *)
(***************************************************************************)
AwaitingAnswer(c) == pc[c] \in {"await_list_tools", "await_call_tool"}

\* C20 as stated: every request of a check is bounded by a timeout, so a
\* check waiting for an answer always ends up settled, and the run of the
\* suite always ends.
C20_Original_NoCallWaitsForever ==
    /\ \A c \in Range(MCPTests) : AwaitingAnswer(c) ~> (pc[c] = "done")
    /\ (run_pc = "gather") ~> MCPRunOver


(***************************************************************************)
(* The same server, another run; the same checks, another order.           *)
(***************************************************************************)
\* test_folder_parameter_handling run to its end from folder idx on
RECURSIVE FolderLoop(_, _, _)
FolderLoop(tr, idx, passed_so_far) ==
    LET folder == folders_to_test[idx]
        o == FolderIteration(tr, server.chat[FolderQuery(folder)], folder, passed_so_far)
    IN IF o.ret = "False" \/ idx = Len(folders_to_test) THEN o.tr
       ELSE FolderLoop(o.tr, idx + 1, o.all_passed)

\* the log a check leaves when it runs to its end on log tr with no other
\* check in between
RunAlone(c, tr) ==
    CASE c = "test_initialize_handshake" -> InitializeHandshake(tr, "ClientSession").tr
      [] c = "test_list_tools" ->
            ListTools(tr, server.list_tools,
                      CHOOSE o \in Orderings(ListedTools(server.list_tools)) : TRUE).tr
      [] c = "test_tool_schemas" -> ToolSchemas(tr, server.list_tools).tr
      [] c = "test_simple_tool_call" -> SimpleToolCall(tr, server.call_tool).tr
      [] c = "test_chatbot_endpoint_basic" -> EndpointBasic(tr, server.chat["Hello"]).tr
      [] c = "test_chatbot_with_account_id" ->
            WithAccountId(tr, server.chat[AccountQuery]).tr
      [] c = "test_chatbot_email_count_accuracy" ->
            LET o == CountChatbotSide(tr, server.chat[CountQuery])
            IN IF o.ret /= "pending" THEN o.tr
               ELSE CountMcpSide(o.tr, server.execute["count_emails_in_folder"],
                                 o.chatbot_count[1]).tr
      [] c = "test_folder_parameter_handling" -> FolderLoop(tr, 1, TRUE)
      [] c = "test_account_isolation" ->
            LET o == IsolationAccounts(tr, server.execute["list_accounts"])
            IN IF o.ret /= "pending" THEN o.tr
               ELSE IsolationChatbot(o.tr, server.chat[AccountQuery]).tr

\* the log a suite leaves when every answer comes in the order the requests
\* were made: each check runs to its end before the next goes on
RECURSIVE RunInOrder(_, _)
RunInOrder(tests, tr) ==
    IF tests = <<>> THEN tr ELSE RunInOrder(Tail(tests), RunAlone(Head(tests), tr))

SequentialRun == RunInOrder(Tests, NoResults)

\* a run whose checks all ended by returning: what it recorded is what the
\* server answered, no more
AnswersOnly == Summarized /\ escapes = {}

\* C21 as stated: two runs against a server that answers the same leave the
\* same summary, failure list and its order included, whatever the order in
\* which the checks completed: every run's summary is the one of the run whose
\* answers came in the order of the requests.
C21_Original_SameSummaryEveryRun ==
    AnswersOnly =>
        /\ test_results.passed = SequentialRun.passed
        /\ test_results.failed = SequentialRun.failed
        /\ test_results.errors = SequentialRun.errors

\* C26: for fixed answers of the server, the passed count, the failed count
\* and the verdict of a suite are the same in every interleaving of its
\* checks: those of the run whose answers came in the order of the requests.
C26_CountsAndVerdictInEveryInterleaving ==
    AnswersOnly =>
        /\ test_results.passed = SequentialRun.passed
        /\ test_results.failed = SequentialRun.failed
        /\ success = (IF SequentialRun.failed = 0 THEN "True" ELSE "False")

C26_Witness_CompletedOutOfOrder ==
    /\ AnswersOnly
    /\ test_results.failed >= 2
    /\ test_results.passed >= 1
    /\ test_results.errors /= SequentialRun.errors


(***************************************************************************)
(* Accounts.                                                               *)
(***************************************************************************)
IsolationCheck == "test_account_isolation"

AccountsAnswer == server.execute["list_accounts"]

\* the chatbot answered a query 200 with a JSON body whose "text" is a string
Answered(q) ==
    /\ server.chat[q].net
    /\ server.chat[q].status = 200
    /\ server.chat[q].json
    /\ server.chat[q].has_text = "str"

\* the server listed more than one account, the chatbot answered the
\* account's query, and the isolation check ended by returning
SeveralAccountsChecked ==
    /\ args.test_chatbot
    /\ pc[IsolationCheck] = "done"
    /\ ret[IsolationCheck] /= "raised"
    /\ AccountsAnswer.net /\ AccountsAnswer.status = 200 /\ AccountsAnswer.json
    /\ AccountsAnswer.data = "list"
    /\ AccountsAnswer.accounts > 1
    /\ Answered(AccountQuery)

\* the count the chatbot gives the account is not the account's own
CountOfAnotherAccount ==
    LET t == server.chat[AccountQuery].text
    IN /\ ContentTokens(t) /= {}
       /\ DirectAnswered
       /\ ~(DirectAnswer.count.kind = "int"
            /\ DirectAnswer.count.int = TokenValue(t, FirstToken(ContentTokens(t))))

\* C22 as stated: with more than one account listed, the comparison is made
\* once for each listed account, and the isolation check fails when the count
\* an account's query returns is not that account's own.
C22_Original_RepeatedPerAccount ==
    SeveralAccountsChecked =>
        /\ recorded[IsolationCheck].passed + recorded[IsolationCheck].failed
              = AccountsAnswer.accounts
        /\ CountOfAnotherAccount => ret[IsolationCheck] = "False"


(***************************************************************************)
(* The transport selector.                                                 *)
(***************************************************************************)
\* the MCP suite is past opening its session, with nothing in the
\* environment in the way
OpeningDone ==
    /\ ~args.test_chatbot
    /\ env = GoodEnv
    /\ run_pc \notin {"main", "initialize"}

\* C23 as stated: with either value of --transport, stdio or http, opening
\* establishes a session and the checks run through it; neither value is
\* rejected.
C23_Original_BothTransportsSupported ==
    OpeningDone =>
        /\ ~pending_exc
        /\ \A c \in Range(MCPTests) : pc[c] /= "absent"
        /\ run_pc = "gather" => session = "ClientSession"


(***************************************************************************)
(* Running the license script again.                                       *)
(***************************************************************************)
\* how many times the header stands in a text
HeaderCopies(text) ==
    Cardinality({ i \in 0..(Len(text) - Len(LICENSE_HEADER)) :
                    SubSeq(text, i + 1, i + Len(LICENSE_HEADER)) = LICENSE_HEADER })

\* C24 as stated: once the script has added the header to a file, with or
\* without a shebang line, has_license_header is true of the file, so that
\* another run skips it: the file never holds the header twice.
C24_Original_SecondRunSkips ==
    /\ added = 1 => HasLicenseHeader(content)
    /\ HeaderCopies(content) <= 1


(***************************************************************************)
(* What opening acquired, teardown releases.                               *)
(***************************************************************************)
\* the bridge process transport was acquired
TransportAcquired ==
    /\ ~args.test_chatbot
    /\ args.transport = "stdio"
    /\ env.sdk_installed
    /\ env.debug_binary \/ env.release_binary
    /\ env.stdio_client_ok

\* the client session was acquired after it
ClientSessionAcquired == TransportAcquired /\ env.client_session_ok

\* C25: when the run of the MCP suite is over, every resource acquired while
\* opening the session has been released, the client session before the
\* transport, nothing else has, and none is left on the stack; this also when
\* the second acquisition or the handshake failed.  Once the run has left
\* Running, that release does come.
C25_ReleasedInReverseOrder ==
    /\ [](MCPRunOver =>
            /\ exit_stack = <<>>
            /\ released = (IF ClientSessionAcquired THEN <<"ClientSession", "stdio_client">>
                           ELSE IF TransportAcquired THEN <<"stdio_client">>
                           ELSE <<>>))
    /\ [](~MCPRunOver => released = <<>>)
    /\ [](MCPRunningEnded => <>(exit_stack = <<>> /\ cleanup_calls = 1))

C25_Witness_HandshakeFailed ==
    /\ MCPRunOver
    /\ ~env.handshake_ok
    /\ pending_exc
    /\ released = <<"ClientSession", "stdio_client">>
    /\ exit_stack = <<>>


(***************************************************************************)
(* No log_test call is lost.                                               *)
(***************************************************************************)
\* the log_test calls a check makes, counted on a log of its own
Calls(c) ==
    [passed |-> RunAlone(c, NoResults).passed, failed |-> RunAlone(c, NoResults).failed]

Raised == { c \in Range(Tests) : ret[c] = "raised" }

\* C27: whatever the interleaving, the shared log holds every log_test call
\* of every check: each check that returned has made the calls it makes when
\* it runs alone, the counts are at every moment the sums of the checks'
\* calls, and at summary time the failed count has one more for each check
\* that raised.
C27_NoLostUpdate ==
    /\ \A c \in Range(Tests) :
          (pc[c] = "done" /\ ret[c] /= "raised") => recorded[c] = Calls(c)
    /\ test_results.passed = Sum([c \in AllTests |-> recorded[c].passed], AllTests)
    /\ test_results.failed =
          Sum([c \in AllTests |-> recorded[c].failed], AllTests)
             + (IF Summarized THEN Cardinality(Raised) ELSE 0)

C27_Witness_InterleavedAndRaised ==
    /\ Summarized
    /\ args.test_chatbot
    /\ Raised = {"test_account_isolation"}
    /\ recorded["test_folder_parameter_handling"] = [passed |-> 3, failed |-> 0]
    /\ test_results.passed = 6
    /\ test_results.failed = 1


(***************************************************************************)
(* A chatbot response without "text".                                      *)
(***************************************************************************)
\* the queries a chatbot check sends, the last one last
QueriesOf(c) ==
    CASE c = "test_chatbot_endpoint_basic" -> <<"Hello">>
      [] c = "test_chatbot_with_account_id" -> <<AccountQuery>>
      [] c = "test_chatbot_email_count_accuracy" -> <<CountQuery>>
      [] c = "test_folder_parameter_handling" ->
            [i \in 1..Len(folders_to_test) |-> FolderQuery(folders_to_test[i])]
      [] c = "test_account_isolation" -> <<AccountQuery>>

\* the chatbot answered q with status 200 and a JSON body that has no "text"
LacksText(q) ==
    /\ server.chat[q].net
    /\ server.chat[q].status = 200
    /\ server.chat[q].json
    /\ server.chat[q].has_text = "missing"

\* the check got answers without "text" and no other from the chatbot, and
\* ended by returning
AnsweredWithoutText(c) ==
    /\ args.test_chatbot
    /\ pc[c] = "done"
    /\ ret[c] /= "raised"
    /\ \A i \in 1..Len(QueriesOf(c)) : LacksText(QueriesOf(c)[i])
    /\ c = "test_account_isolation" => AccountsAnswer = ExecAccounts(1)

\* C28 as stated: every chatbot check records a 200 response whose body has
\* no "text" as a failure, and none records a pass for it.
C28_Original_MissingTextFails ==
    \A c \in Range(ChatbotTests) :
        AnsweredWithoutText(c) =>
            /\ ret[c] = "False"
            /\ recorded[c].passed = 0
            /\ recorded[c].failed >= 1


(***************************************************************************)
(* Provider tags and the checks that look for a count.                     *)
(***************************************************************************)
\* text t has a digit outside its provider-tag lines
ContentHasDigit(t) ==
    \E i \in 1..Len(t) : DecimalDigit(t[i]) /\ ~OnProviderLine(t, i)

\* the check got, to each of its queries, a text with no digit outside the
\* provider-tag lines, and ended by returning
AnsweredWithoutCount(c) ==
    /\ args.test_chatbot
    /\ pc[c] = "done"
    /\ ret[c] /= "raised"
    /\ \A i \in 1..Len(QueriesOf(c)) :
          /\ Answered(QueriesOf(c)[i])
          /\ ~ContentHasDigit(server.chat[QueriesOf(c)[i]].text)
    /\ c = "test_account_isolation" => AccountsAnswer = ExecAccounts(1)

\* C29 as stated: in the folder check and the isolation check the outcome
\* does not depend on the provider-tag lines: a response whose only digits
\* stand in a provider-tag line fails as the same response without them does.
C29_Original_TagDigitsDoNotCount ==
    \A c \in {"test_folder_parameter_handling", "test_account_isolation"} :
        AnsweredWithoutCount(c) =>
            /\ ret[c] = "False"
            /\ recorded[c].passed = 0


(***************************************************************************)
(* What one call of log_test changes.                                      *)
(***************************************************************************)
\* the "<name>: <detail>" entries the calls made here can write
LogEntries ==
    { test_name \o ": " \o error :
        test_name \in {"Tool count", "List tools", "Schema: list_folders"},
        error \in {"None", "Missing name"} }

\* C30: a call of log_test either adds one to the passed count and leaves
\* the failed count and the failure list as they were, or adds one to the
\* failed count, puts one entry "<name>: <detail>" at the end of the failure
\* list and leaves the passed count and every earlier entry as they were.
C30_LogTestFrame ==
    [][LET old == test_results
           new == test_results'
       IN \/ /\ new.passed = old.passed + 1
             /\ new.failed = old.failed
             /\ new.errors = old.errors
          \/ /\ new.failed = old.failed + 1
             /\ new.passed = old.passed
             /\ Len(new.errors) = Len(old.errors) + 1
             /\ SubSeq(new.errors, 1, Len(old.errors)) = old.errors
             /\ new.errors[Len(new.errors)] \in LogEntries]_vars

C30_Witness_PassBetweenFailures ==
    test_results = [passed |-> 1, failed |-> 2,
                    errors |-> <<"Tool count: Missing name", "List tools: None">>]


\* ---- C31 ----

\* C31: the expected catalog is never mutated at runtime. In every state of a
\* run of either suite (initialize, the checks in any interleaving, the
\* summary, cleanup and exit) the EXPECTED_TOOLS list holds the same 18
\* distinct names, in the same order, as when the module was loaded.
C31_ExpectedToolsNeverMutated ==
    /\ expected_tools = EXPECTED_TOOLS
    /\ Len(expected_tools) = 18
    /\ Cardinality(Range(expected_tools)) = 18

\* the run is over, cleanup included, and test_list_tools took the set
\* difference against a catalog that lacks an expected name
C31_Witness_AfterDifferenceAndCleanup ==
    /\ run_pc = "exited"
    /\ cleanup_calls = 1
    /\ pc["test_list_tools"] = "done"
    /\ missing_tools /= <<>>
    /\ missing_tools[1] /= {}
    /\ expected_tools = EXPECTED_TOOLS


\* ---- C32 ----

DebugBuild == "target/debug/rustymail-mcp-stdio"
ReleaseBuild == "target/release/rustymail-mcp-stdio"

\* initialize_stdio has gone past its probing of the build paths
Probed ==
    /\ ~args.test_chatbot
    /\ args.transport = "stdio"
    /\ env.sdk_installed
    /\ run_pc \notin {"main", "initialize"}

NeitherBuilt == ~env.debug_binary /\ ~env.release_binary

Spawned(path) ==
    /\ binary_path = path
    /\ \E i \in DOMAIN (exit_stack \o released) : (exit_stack \o released)[i] = "stdio_client"

\* C32: opening the stdio transport takes the debug build whenever it exists
\* and turns to the release build only when the debug build is absent; the
\* server process is only ever spawned from a path that exists; and when
\* neither build exists, opening fails with nothing spawned, nothing entered
\* on the exit stack (so nothing for cleanup to release) and the session null,
\* from the start of the run to its end.
C32_DebugProbedFirst ==
    /\ Probed => binary_path = (IF env.debug_binary THEN DebugBuild ELSE ReleaseBuild)
    /\ ~Probed => binary_path = ""
    /\ binary_path = ReleaseBuild => ~env.debug_binary
    /\ Spawned(DebugBuild) => env.debug_binary
    /\ Spawned(ReleaseBuild) => env.release_binary
    /\ (~args.test_chatbot /\ NeitherBuilt) =>
          /\ exit_stack = <<>>
          /\ released = <<>>
          /\ session = "None"
          /\ \A c \in Range(MCPTests) : pc[c] = "absent"
          /\ Probed => (pending_exc /\ success = "None")
          /\ run_pc = "exited" => (exit_status = 1 /\ cleanup_calls = 1)

\* only the release build exists, and the session was opened from it
C32_Witness_ReleaseFallback ==
    /\ ~env.debug_binary
    /\ env.release_binary
    /\ Spawned(ReleaseBuild)
    /\ session = "ClientSession"
    /\ run_pc = "gather"


\* ---- C33 ----

\* both contexts of the session were entered: they are on the exit stack, or
\* cleanup has released them
BothResourcesAcquired ==
    \/ exit_stack = <<"stdio_client", "ClientSession">>
    \/ exit_stack = <<>> /\ released = <<"ClientSession", "stdio_client">>

\* C33: in every state of the MCP tester a session that is not null means
\* that the transport and the client session were both acquired and that the
\* initialize handshake returned; when any step of opening fails, the
\* handshake included, the session is null from then on.
C33_SessionOnlyAfterHandshake ==
    /\ session \in {"None", "ClientSession"}
    /\ session /= "None" =>
          /\ ClientSessionAcquired
          /\ env.handshake_ok
          /\ BothResourcesAcquired
          /\ run_pc \notin {"main", "initialize", "constructed"}
    /\ (args.test_chatbot \/ InitFails) => session = "None"

\* the handshake returned and the checks are running through the session
C33_Witness_SessionAfterHandshake ==
    /\ session = "ClientSession"
    /\ exit_stack = <<"stdio_client", "ClientSession">>
    /\ env.handshake_ok
    /\ run_pc = "gather"
    /\ pc["test_simple_tool_call"] = "done"


\* ---- C34 ----

\* C34 as stated: once cleanup has returned, the tester's session is null,
\* also when releasing a resource raised inside cleanup.
C34_Original_SessionNullAfterCleanup == cleanup_calls > 0 => session = "None"

\* the same for the runs in which releasing raises nothing
C34_SessionNullAfterCleanRelease ==
    (cleanup_calls > 0 /\ env.aclose_ok) => session = "None"


\* ---- C35 ----

\* the check c has returned a boolean to gather
Returned(c) == pc[c] = "done" /\ ret[c] \in {"True", "False"}

\* C35: in either suite a check that has returned has returned false exactly
\* when it recorded at least one failed outcome in that invocation, and one
\* that returned true recorded none; so once the summary is made in a run
\* where no check raised out of the join, the verdict (failed count = 0) is
\* the conjunction of what the checks returned.
C35_ReturnMatchesRecordedFailures ==
    /\ \A c \in Range(Tests) :
          Returned(c) =>
             /\ ret[c] = "False" <=> recorded[c].failed >= 1
             /\ ret[c] = "True" => recorded[c].failed = 0
    /\ (Summarized /\ \A c \in Range(Tests) : ret[c] /= "raised") =>
          /\ (test_results.failed = 0) <=> (\A c \in Range(Tests) : ret[c] = "True")
          /\ (success = "True") <=> (\A c \in Range(Tests) : ret[c] = "True")

\* the summary of a run where no check raised, test_tool_schemas returned
\* false after recording passes and one failure, and a sibling returned true
C35_Witness_FalseAfterPassesAndAFailure ==
    /\ Summarized
    /\ \A c \in Range(Tests) : ret[c] /= "raised"
    /\ ret[SchemaCheck] = "False"
    /\ recorded[SchemaCheck].failed = 1
    /\ recorded[SchemaCheck].passed > 1
    /\ ret["test_initialize_handshake"] = "True"
    /\ success = "False"


\* ---- C36 ----

\* the chatbot's response arrived with status 200 and an integer stands in
\* its text outside the provider-tag lines
ChatbotStepSucceeds ==
    /\ ChatbotAnswered
    /\ \E i \in 1..Len(ChatbotAnswer.text) : \E j \in i..Len(ChatbotAnswer.text) :
          IsToken(ChatbotAnswer.text, i, j) /\ ~OnProviderLine(ChatbotAnswer.text, i)

\* the direct tool request has been issued: the check awaits its response, or
\* has acted on it
DirectRequestIssued ==
    \/ pc[CountCheck] = "await_mcp"
    \/ CountCheckDone /\ chatbot_count /= <<>>

\* C36: the count check issues the direct tool request only after the
\* chatbot's response arrived with status 200 and an integer was extracted
\* from it, and before that it has recorded nothing; when the chatbot step
\* fails (no response, a status other than 200, a body without an integer)
\* the check ends with exactly one failure recorded and the direct request
\* is not issued in any state of the run.
C36_DirectRequestOnlyAfterChatbotCount ==
    LET succeeds == ChatbotStepSucceeds
    IN /\ DirectRequestIssued =>
             /\ succeeds
             /\ numbers /= <<>>
             /\ Len(chatbot_count) = 1
       /\ pc[CountCheck] = "await_mcp" =>
             (test_results = NoResults /\ ret[CountCheck] = "pending")
       /\ (CountCheckDone /\ ~DirectRequestIssued) =>
             /\ ~succeeds
             /\ OneFailure
             /\ recorded[CountCheck] = [passed |-> 0, failed |-> 1]

\* the chatbot answered 200 without any integer, the check is over with its
\* one failure, and the direct tool, which would have answered, was not asked
C36_Witness_NoIntegerNoDirectRequest ==
    /\ CountCheckDone
    /\ ChatbotAnswered
    /\ ContentTokens(ChatbotAnswer.text) = {}
    /\ Len(ChatbotAnswer.text) > 0
    /\ DirectAnswered
    /\ OneFailure
    /\ chatbot_count = <<>>


\* ---- C37 ----

\* the direct tool answered 200 with a JSON body in which "data" is an
\* object, or is left out, and its "count" is absent or null
DirectWithoutCount ==
    /\ DirectAnswer.net
    /\ DirectAnswer.status = 200
    /\ DirectAnswer.json
    /\ \/ DirectAnswer.data = "missing"
       \/ DirectAnswer.data = "object" /\ DirectAnswer.count.kind \in {"missing", "null"}

DirectCountIs(n) ==
    /\ DirectAnswered
    /\ DirectAnswer.count.kind = "int"
    /\ DirectAnswer.count.int = n

\* C37: when the count check has acted on the direct tool's response, the
\* value it compares is data.count. A count that is absent or null fails the
\* check with "MCP returned no count" and no comparison is reported, whatever
\* the chatbot's integer; a count of 0 is a value like any other: against a
\* chatbot integer of 0 the check passes, against any other it fails with the
\* mismatch detail naming both.
C37_ZeroIsACountNullIsNot ==
    (CountCheckDone /\ chatbot_count /= <<>>) =>
        /\ DirectWithoutCount =>
              /\ OneFailure
              /\ test_results.errors = <<"Email count accuracy: MCP returned no count">>
        /\ (DirectCountIs(0) /\ chatbot_count = <<0>>) => OnePass
        /\ (DirectCountIs(0) /\ chatbot_count /= <<0>>) =>
              /\ OneFailure
              /\ test_results.errors =
                    <<"Email count accuracy: Mismatch: chatbot="
                        \o Decimal(chatbot_count[1]) \o ", MCP=0">>
        /\ (\E n \in 0..MaxCount : DirectCountIs(n)) =>
              (OnePass <=> DirectCountIs(chatbot_count[1]))

\* the chatbot said 0 and the direct tool counted 0: the check passed
C37_Witness_ZeroAgainstZero ==
    /\ CountCheckDone
    /\ chatbot_count = <<0>>
    /\ DirectCountIs(0)
    /\ OnePass


\* ---- C38 ----

Shebang(text) == Len(text) >= 2 /\ text[1] = "#" /\ text[2] = "!"

\* where the first line of a text ends: at its first line feed, or past its
\* last character when it has none
FirstLineEnd(text) ==
    IF \E k \in 1..Len(text) : text[k] = "\n"
    THEN CHOOSE k \in 1..Len(text) : text[k] = "\n" /\ \A j \in 1..(k - 1) : text[j] /= "\n"
    ELSE Len(text) + 1

FirstLine(text) == SubSeq(text, 1, FirstLineEnd(text) - 1)

\* what follows the first line and its line feed
AfterFirstLine(text) == SubSeq(text, FirstLineEnd(text) + 1, Len(text))

\* add_license_to_file was called in this step
AddLicenseCalled == add_result = "None" /\ add_result' /= "None"

\* the header put after the first line of a text, with or without an empty
\* line between the two
HeaderAfterFirstLine(text) ==
    { FirstLine(text) \o sep \o LICENSE_HEADER \o AfterFirstLine(text) :
        sep \in { <<"\n">>, <<"\n", "\n">> } }

\* C38 as stated: the call changes nothing but the insertion of the header.
\* Of a file that starts with "#!" the first line stays the first line, the
\* header follows it, and the rest of the content follows unchanged; of any
\* other file the result is the header followed by the content unchanged;
\* when the file cannot be read or written the call returns false.
C38_Original_OnlyTheHeaderInserted ==
    [][AddLicenseCalled =>
          /\ file_access = "rw" =>
                /\ add_result' = "True"
                /\ IF Shebang(content)
                   THEN content' \in HeaderAfterFirstLine(content)
                   ELSE content' = LICENSE_HEADER \o content
          /\ file_access /= "rw" => add_result' = "False"]_vars

HasCarriageReturn(text) == \E i \in 1..Len(text) : text[i] = "\r"

\* the same for the files that hold no carriage return: there the first line
\* stays, an empty line and the header follow it, and the rest is unchanged;
\* a call that fails leaves the file as it was, and no call touches anything
\* else.
C38_FrameWithoutCarriageReturns ==
    [][AddLicenseCalled =>
          /\ (file_access = "rw" /\ ~HasCarriageReturn(content)) =>
                /\ add_result' = "True"
                /\ content' = IF Shebang(content)
                              THEN FirstLine(content) \o <<"\n", "\n">> \o LICENSE_HEADER
                                      \o AfterFirstLine(content)
                              ELSE LICENSE_HEADER \o content
          /\ file_access /= "rw" => (add_result' = "False" /\ content' = content)
          /\ UNCHANGED <<file_access, added, skipped, license_runs>>]_vars

=============================================================================
